---- MODULE Spec2Model ----
(***************************************************************************)
(* Smooth Write: the debounced auto-save scheduler (core/auto_save.py),    *)
(* the JSON note store (core/storage.py), the Note entity (core/note.py)   *)
(* and the main window that wires them to the editor (app.py).             *)
(*                                                                         *)
(* Time is in milliseconds.  All code runs on the one Qt event-loop        *)
(* thread, so every handler is one atomic action.                          *)
(***************************************************************************)
EXTENDS Integers, Sequences, FiniteSets, TLC

VARIABLES
    now,            \* event-loop clock (ms)
    asm,            \* the AutoSaveManager object: delay_ms, is_enabled, timer
    last,           \* the operation that ran last and what it did
    hist,           \* bookkeeping of the current burst of trigger() calls
    win,            \* the MainWindow with its editor, notes list and storage
    disk,           \* a StorageManager on its own: the directory and the last call
    obj,            \* a Note object on its own, and the last operation on it
    lst,            \* a NotesList on its own, and the last operation on it
    loop            \* the event loop: the handlers in progress, call by call

schedVars == <<now, asm, last, hist>>
vars == <<now, asm, last, hist, win, disk, obj, lst, loop>>

-----------------------------------------------------------------------------
(* Bounds of the model *)

\* the clock stops advancing here; trigger() is not issued when its deadline
\* would lie beyond it
MaxTime == 1400
\* granularity of the clock: at most this much time passes between two events
TickMs == 200
\* burst lengths are counted up to here
MaxBurst == 3

\* AutoSaveManager.__init__(save_callback, delay_ms=1000)
DefaultDelayMs == 1000
\* the values set_delay() is called with
DelayChoices == {400, DefaultDelayMs}

\* what a run of the save callback can do: return, raise an Exception whose
\* text can be formatted (every I/O and encoding error is one), raise an
\* Exception whose __str__ itself raises (an Exception or a BaseException),
\* or raise a BaseException that is not an Exception (KeyboardInterrupt,
\* SystemExit)
CallbackOutcomes == {"ok", "Exception", "UnprintableException", "BaseException"}

\* the outcomes in which the callback raised an Exception
CallbackFailures == {"Exception", "UnprintableException"}

-----------------------------------------------------------------------------
(* QTimer, single-shot: the part of Qt the scheduler uses *)

\* QTimer(); setSingleShot(True): the C++ object is alive and not running.
\* While it runs, deadline is the end of the countdown and earliest the first
\* moment at which the timeout can be delivered; it is delivered when the
\* event loop gets to it, which can be after the deadline
QTimer == [obj |-> "alive", active |-> FALSE, earliest |-> 0, deadline |-> 0]

\* the timer type is left at QTimer's default, Qt.CoarseTimer: Qt rounds the
\* expiry within 5% of the interval, so the timeout can come that much
\* early; intervals of at most 20 ms are kept precise
coarse_tolerance(msec) == IF msec <= 20 THEN 0 ELSE msec \div 20

\* QTimer.stop()
timer_stop(t) == [t EXCEPT !.active = FALSE, !.earliest = 0, !.deadline = 0]

\* QTimer.start(msec) at time clock: (re)starts the countdown
timer_start(t, msec, clock) ==
    [t EXCEPT !.active = TRUE,
              !.earliest = clock + msec - coarse_tolerance(msec),
              !.deadline = clock + msec]

\* a call on a wrapper whose C++ object has been deleted raises RuntimeError
timer_gone(t) == t.obj = "deleted"

-----------------------------------------------------------------------------
(* AutoSaveManager *)

\* __init__: the object after construction
AutoSaveManager(delay_ms) ==
    [delay_ms |-> delay_ms, is_enabled |-> TRUE, timer |-> QTimer]

\* a trigger() that stops the timer and never starts it again
trigger_stop_only(self, clock) ==
    IF ~self.is_enabled \/ timer_gone(self.timer) THEN self
    ELSE [self EXCEPT !.timer = timer_stop(@)]

\* trigger(): the manager afterwards
trigger(self, clock) ==
    IF ~self.is_enabled THEN self
    ELSE IF timer_gone(self.timer) THEN self
    ELSE [self EXCEPT !.timer = timer_start(timer_stop(@), self.delay_ms, clock)]

\* trigger() raises exactly when it reaches the timer and the timer is gone
trigger_raises(self) == self.is_enabled /\ timer_gone(self.timer)

\* _on_save(): what can escape to the caller when the callback ends in
\* outcome.  `except Exception as e` catches every Exception and then formats
\* it into the log message, f"Auto-save failed: {e}": whatever str(e) raises,
\* an Exception or a BaseException, leaves the except block; a BaseException
\* the callback raises is not caught at all
on_save(outcome) ==
    CASE outcome = "BaseException" -> {"BaseException"}
      [] outcome = "UnprintableException" -> {"Exception", "BaseException"}
      [] OTHER -> {"none"}

\* a save_now() that forgets to stop the timer
save_now_no_stop(self) == self

\* save_now(): the manager after its first statement, self._timer.stop()
save_now(self) ==
    IF timer_gone(self.timer) THEN self
    ELSE [self EXCEPT !.timer = timer_stop(@)]

\* enable()
enable(self) == [self EXCEPT !.is_enabled = TRUE]

\* a disable() that leaves the countdown running
disable_no_stop(self) == [self EXCEPT !.is_enabled = FALSE]

\* disable(): the flag is cleared before the timer is touched
disable(self) ==
    IF timer_gone(self.timer) THEN [self EXCEPT !.is_enabled = FALSE]
    ELSE [self EXCEPT !.is_enabled = FALSE, !.timer = timer_stop(@)]

\* a set_delay() that also moves a running countdown to the new delay
set_delay_moves_deadline(self, delay_ms) ==
    IF ~self.timer.active THEN [self EXCEPT !.delay_ms = delay_ms]
    ELSE [self EXCEPT !.delay_ms = delay_ms,
                      !.timer = timer_start(@, delay_ms,
                                            self.timer.deadline - self.delay_ms)]

\* set_delay(delay_ms): only the attribute changes
set_delay(self, delay_ms) == [self EXCEPT !.delay_ms = delay_ms]

\* a cleanup() that schedules the deletion without stopping the timer
cleanup_no_stop(self) ==
    IF timer_gone(self.timer) THEN self
    ELSE [self EXCEPT !.timer.obj = "deleteLater"]

\* cleanup(): stop(), then deleteLater() marks the timer for deletion on the
\* next pass of the event loop
cleanup(self) ==
    IF timer_gone(self.timer) THEN self
    ELSE [self EXCEPT !.timer = [timer_stop(@) EXCEPT !.obj = "deleteLater"]]

\* the event loop carries out a deleteLater(): the timer is destroyed
deferred_delete(self) ==
    [self EXCEPT !.timer = [timer_stop(@) EXCEPT !.obj = "deleted"]]

\* the timer's timeout signal can be delivered: the countdown has come
\* within the coarse timer's tolerance of its end.  It stays deliverable
\* until the timer is stopped or started again: Qt rounds the expiry up as
\* well as down, and a busy event loop delivers it later still
timeout_due(self, clock) ==
    /\ ~timer_gone(self.timer)
    /\ self.timer.active
    /\ self.timer.earliest <= clock

\* a single-shot timer is inactive once it has fired
timer_fired(self) == [self EXCEPT !.timer = timer_stop(@)]

-----------------------------------------------------------------------------
(* Text: a sequence of tokens, each a character or a markup tag *)

OpenTags == {"<p>", "<h1>"}
CloseTags == {"</p>", "</h1>"}
Tags == OpenTags \cup CloseTags
Whitespace == {" ", "\n"}

\* QTextEdit.toHtml(): Qt's own markup around the text, also around an empty one
to_html(text) == <<"<p>">> \o text \o <<"</p>">>

RECURSIVE lstrip(_)
lstrip(text) ==
    IF text # <<>> /\ Head(text) \in Whitespace THEN lstrip(Tail(text)) ELSE text

RECURSIVE rstrip(_)
rstrip(text) ==
    IF text # <<>> /\ text[Len(text)] \in Whitespace
    THEN rstrip(SubSeq(text, 1, Len(text) - 1)) ELSE text

\* str.strip()
strip(text) == rstrip(lstrip(text))

\* text.split('\n')[0]
first_line(text) ==
    LET breaks == {i \in DOMAIN text : text[i] = "\n"} IN
    IF breaks = {} THEN text
    ELSE SubSeq(text, 1, (CHOOSE i \in breaks : \A j \in breaks : i <= j) - 1)

\* HTML white-space handling inside a block: leading and trailing white space
\* goes, every other run of white space (a newline of the source included)
\* becomes one space
squeeze(text) ==
    IF \A i \in DOMAIN text : text[i] \notin Whitespace THEN text ELSE
    LET marked == [i \in DOMAIN text |->
                      [tok |-> IF text[i] \in Whitespace THEN " " ELSE text[i],
                       repeated |-> /\ i > 1
                                    /\ text[i] \in Whitespace
                                    /\ text[i - 1] \in Whitespace]]
        kept == SelectSeq(marked, LAMBDA m : ~m.repeated)
    IN  [i \in DOMAIN kept |-> kept[i].tok]
collapse(text) == squeeze(strip(text))

\* the blocks of an HTML text: an element <p> or <h1> is a block, and so is a
\* run of text outside the elements unless it is white space only
html_blocks(html) ==
    LET tags == SelectSeq([i \in DOMAIN html |-> i], LAMBDA i : html[i] \in Tags)
        bounds == <<0>> \o tags \o <<Len(html) + 1>>
        runs == [k \in 1..(Len(bounds) - 1) |->
                    [open |-> bounds[k] >= 1 /\ html[bounds[k]] \in OpenTags,
                     text |-> SubSeq(html, bounds[k] + 1, bounds[k + 1] - 1)]]
        blocks == SelectSeq(runs, LAMBDA r : r.open \/ strip(r.text) # <<>>)
    IN  [k \in DOMAIN blocks |-> collapse(blocks[k].text)]

\* str.join: the blocks with a newline between them
RECURSIVE join_lines(_)
join_lines(blocks) ==
    IF blocks = <<>> THEN <<>>
    ELSE IF Len(blocks) = 1 THEN blocks[1]
    ELSE blocks[1] \o <<"\n">> \o join_lines(Tail(blocks))

\* QTextDocument.setHtml(html) followed by toPlainText(): the markup is
\* dropped, white space is collapsed and every block is a line
to_plain_text(html) == join_lines(html_blocks(html))

-----------------------------------------------------------------------------
(* Note *)

\* no note, no row
None == 0

Untitled == <<"Untitled">>
Ellipsis == <<"...">>
TitleMax == 50

\* an _extract_title that keeps the whole first line
extract_title_whole_line(content) ==
    IF content = <<>> \/ strip(content) = <<>> THEN Untitled
    ELSE LET plain_text == strip(to_plain_text(content)) IN
         IF plain_text = <<>> THEN Untitled ELSE first_line(plain_text)

\* Note._extract_title
extract_title(content) ==
    IF content = <<>> \/ strip(content) = <<>> THEN Untitled
    ELSE LET plain_text == strip(to_plain_text(content)) IN
         IF plain_text = <<>> THEN Untitled
         ELSE LET line == first_line(plain_text)
                  title == IF Len(line) > TitleMax
                           THEN SubSeq(line, 1, TitleMax) \o Ellipsis
                           ELSE line
              IN  IF title = <<>> THEN Untitled ELSE title

\* a datetime: the instant, and whether it carries a UTC offset (aware) or
\* not (naive); datetime.now() at time clock is naive
datetime_now(clock) == [at |-> clock, tz |-> "naive"]
aware(t) == t.tz = "utc"

\* Note(): a fresh identifier and the dataclass defaults
Note(id, clock) ==
    [id |-> id, title |-> Untitled, content |-> <<>>,
     created_at |-> datetime_now(clock),
     modified_at |-> datetime_now(clock), is_favorite |-> FALSE]

\* an update_content that takes the time of the call as the time of creation
update_content_recreates(self, content, clock) ==
    [self EXCEPT !.content = content, !.modified_at = datetime_now(clock),
                 !.created_at = datetime_now(clock),
                 !.title = extract_title(content)]

\* an update_content that derives the title before it stores the content
update_content_stale_title(self, content, clock) ==
    [self EXCEPT !.content = content, !.modified_at = datetime_now(clock),
                 !.title = extract_title(self.content)]

\* Note.update_content
update_content(self, content, clock) ==
    [self EXCEPT !.content = content, !.modified_at = datetime_now(clock),
                 !.title = extract_title(content)]

\* datetime.isoformat() and datetime.fromisoformat(): an ISO-8601 text with
\* an offset gives an aware datetime, one without a naive datetime
isoformat(t) == IF aware(t) THEN <<"iso", t.at, "+00:00">> ELSE <<"iso", t.at>>
fromisoformat(text) ==
    [at |-> text[2], tz |-> IF Len(text) = 3 THEN "utc" ELSE "naive"]

\* Note.to_dict
to_dict(self) ==
    [id |-> self.id, title |-> self.title, content |-> self.content,
     created_at |-> isoformat(self.created_at),
     modified_at |-> isoformat(self.modified_at),
     is_favorite |-> self.is_favorite]

\* dict.get(key, default)
get(data, key, default) == IF key \in DOMAIN data THEN data[key] ELSE default

\* a from_dict that stamps the note with the time of the call
from_dict_touch(data, fresh_id, clock) ==
    [id |-> get(data, "id", fresh_id),
     title |-> get(data, "title", Untitled),
     content |-> get(data, "content", <<>>),
     created_at |-> IF "created_at" \in DOMAIN data
                    THEN fromisoformat(data.created_at) ELSE datetime_now(clock),
     modified_at |-> datetime_now(clock),
     is_favorite |-> get(data, "is_favorite", FALSE)]

\* a from_dict whose default title is the empty text
from_dict_blank_title(data, fresh_id, clock) ==
    [id |-> get(data, "id", fresh_id),
     title |-> get(data, "title", <<>>),
     content |-> get(data, "content", <<>>),
     created_at |-> IF "created_at" \in DOMAIN data
                    THEN fromisoformat(data.created_at) ELSE datetime_now(clock),
     modified_at |-> IF "modified_at" \in DOMAIN data
                     THEN fromisoformat(data.modified_at) ELSE datetime_now(clock),
     is_favorite |-> get(data, "is_favorite", FALSE)]

\* Note.from_dict: a key the dictionary lacks takes its default, which is a
\* fresh uuid4 for the id and the time of the call for the two timestamps;
\* the title is taken from the dictionary, not derived from the content
from_dict(data, fresh_id, clock) ==
    [id |-> get(data, "id", fresh_id),
     title |-> get(data, "title", Untitled),
     content |-> get(data, "content", <<>>),
     created_at |-> IF "created_at" \in DOMAIN data
                    THEN fromisoformat(data.created_at) ELSE datetime_now(clock),
     modified_at |-> IF "modified_at" \in DOMAIN data
                     THEN fromisoformat(data.modified_at) ELSE datetime_now(clock),
     is_favorite |-> get(data, "is_favorite", FALSE)]

\* helpers.create_welcome_note: hand-written markup, then update_content (the
\* white space between the elements, which the HTML parser drops, is left out)
WelcomeHtml == <<"<h1>", "a", "</h1>">>
create_welcome_note(id, clock) == update_content(Note(id, clock), WelcomeHtml, clock)

-----------------------------------------------------------------------------
(* StorageManager: the notes directory as a function from note identifiers *)
(* (file <id>.json) to file contents                                       *)

put(f, k, v) == [x \in DOMAIN f \cup {k} |-> IF x = k THEN v ELSE f[x]]
drop(f, k) == [x \in DOMAIN f \ {k} |-> f[x]]
NoFiles == [x \in {} |-> None]

\* a file json.dump has written completely
File(data) == [parsable |-> TRUE, data |-> data]
\* a file left behind by open(path, 'w') and an interrupted json.dump: it is
\* empty or ends inside the JSON text, and json.load rejects it
Truncated == [parsable |-> FALSE, data |-> to_dict(Note(None, 0))]

\* how a save can end: success; open() raises, before the file is touched;
\* open() has truncated the file and to_dict, json.dump or the write raises
SaveOutcomes == {"ok", "open_error", "write_error"}
\* how an unlink can end
DeleteOutcomes == {"ok", "error"}

\* a save_note that leaves its file alone in the directory
save_note_alone(files, note, outcome) ==
    IF outcome = "ok" THEN put(NoFiles, note.id, File(to_dict(note))) ELSE files

\* a save_note that leaves a file that exists as it is
save_note_keeps_existing(files, note, outcome) ==
    IF outcome = "ok" /\ note.id \notin DOMAIN files
    THEN [x \in DOMAIN files \cup {note.id} |->
              IF x = note.id THEN [parsable |-> TRUE, data |-> to_dict(note)]
              ELSE files[x]]
    ELSE files

\* StorageManager.save_note: the directory afterwards
save_note(files, note, outcome) ==
    CASE outcome = "ok" -> put(files, note.id, File(to_dict(note)))
      [] outcome = "open_error" -> files
      [] outcome = "write_error" -> put(files, note.id, Truncated)

\* a save_note that reports success whatever happened
save_note_result_blind(outcome) == TRUE

\* StorageManager.save_note: the value returned
save_note_result(outcome) == outcome = "ok"

\* how reading a file that exists can end: open() and the read succeed, or
\* one of them raises (EMFILE, EACCES, EIO)
ReadOutcomes == {"ok", "error"}

\* StorageManager.load_note: <<note>>, or <<>> for None: the file is absent,
\* or open, json.load or from_dict raises and `except Exception` returns
\* None.  The records in the directory hold every key, so from_dict takes no
\* default.
load_note(files, note_id, outcome) ==
    IF note_id \in DOMAIN files /\ outcome = "ok" /\ files[note_id].parsable
    THEN <<from_dict(files[note_id].data, None, 0)>> ELSE <<>>

\* sequences over S without repetition that hold every element of S
Orderings(S) ==
    {q \in [1..Cardinality(S) -> S] : \A i, j \in DOMAIN q : i # j => q[i] # q[j]}

\* how listing the directory can end
ListOutcomes == {"ok", "error"}

\* StorageManager.load_all_notes, the files it loads in the order of its
\* result: the files that can be read and parsed,
\* newest first; glob fixes no order among files of equal modified_at, so
\* every such order is possible.  listing is how glob ends and unread the
\* files whose open or read raises: the inner except skips each of those as
\* it skips a file json.load rejects, and the outer except returns [] when
\* glob raises.  notes.sort compares the modified_at of the notes: Python
\* raises TypeError when it compares a naive datetime with an aware one, and
\* the outer except returns [] as well.
load_order(files, listing, unread) ==
    LET good == {i \in DOMAIN files \ unread : files[i].parsable}
        modified(i) == from_dict(files[i].data, None, 0).modified_at
    IN  IF listing # "ok" THEN {<<>>}
        ELSE IF \E i, j \in good : aware(modified(i)) # aware(modified(j))
        THEN {<<>>}
        ELSE {o \in Orderings(good) :
                  \A i, j \in DOMAIN o :
                      i < j => modified(o[i]).at >= modified(o[j]).at}

\* StorageManager.load_all_notes: the notes it returns, one Note object per
\* file of the order above, with the identifier its record holds
load_all_notes(files, listing, unread) ==
    {[k \in DOMAIN q |-> from_dict(files[q[k]].data, None, 0)] :
         q \in load_order(files, listing, unread)}

\* a delete_note that leaves the file in place
delete_note_keeps_file(files, note_id, outcome) == files

\* StorageManager.delete_note: the directory afterwards and the value returned
delete_note(files, note_id, outcome) ==
    IF note_id \in DOMAIN files /\ outcome = "ok" THEN drop(files, note_id) ELSE files
delete_note_result(files, note_id, outcome) ==
    note_id \in DOMAIN files /\ outcome = "ok"

\* a count that loads the records and counts those that deserialize
get_note_count_loaded(files, outcome) ==
    IF outcome = "ok" THEN Cardinality({i \in DOMAIN files : files[i].parsable})
    ELSE 0

\* StorageManager.get_note_count: the files glob("*.json") lists, 0 when
\* listing raises
get_note_count(files, outcome) ==
    IF outcome = "ok" THEN Cardinality(DOMAIN files) ELSE 0

\* what leaves save_note when its body ends in outcome: the failures of
\* open, to_dict, json.dump and the write are Exceptions, and
\* `except Exception` turns each into the return value False
save_note_raises(outcome) ==
    IF outcome \in SaveOutcomes THEN "none" ELSE outcome

-----------------------------------------------------------------------------
(* NotesList.  heap holds the Note objects by reference: an object is       *)
(* named by the stem of the file it belongs to, which is its identifier     *)
(* for a file the program wrote, and another number for a copy of a record  *)
(* file.  notes is _notes, the references of its objects; items is          *)
(* _list_widget, one row per NoteListItem with the object it refers to, the *)
(* title line its display text was built from and whether it is hidden.     *)
(* current_row is the position of the current row (None when there is       *)
(* none), search the text in the search box, title_label and empty_state    *)
(* what the two labels show.                                                *)

\* str.lower()
lower(text) == [i \in DOMAIN text |-> IF text[i] = "A" THEN "a" ELSE text[i]]

\* the Python test: query in text
contains(text, query) ==
    \E i \in 0..(Len(text) - Len(query)) : SubSeq(text, i + 1, i + Len(query)) = query

\* NoteListItem._format_time computes datetime.now() - note.modified_at:
\* Python raises TypeError when modified_at carries a UTC offset
format_time_raises(note) == aware(note.modified_at)

\* NoteListItem(note), for a note _format_time accepts: the row refers to the
\* note and _update_display sets its text, of which the title line is kept
NoteListItem(w, note) ==
    [note |-> note, title |-> w.heap[note].title, hidden |-> FALSE]

\* the list after a call that raised: the exception leaves the method at
\* once, with what the method had done until then
raise(w, exception) == [w EXCEPT !.raised = exception]

\* the rows of the list widget that are not hidden
visible(w) == {i \in DOMAIN w.items : ~w.items[i].hidden}

\* the first position of a set of positions
first_of(hits) == CHOOSE k \in hits : \A m \in hits : k <= m

\* the positions of _notes whose note has the identifier (n.id == note_id)
notes_with(w, note_id) == {i \in DOMAIN w.notes : w.heap[w.notes[i]].id = note_id}

\* the rows whose note has the identifier (item.note.id == note_id)
items_with(w, note_id) == {i \in DOMAIN w.items : w.heap[w.items[i].note].id = note_id}

\* NotesList._update_title
update_title(w) ==
    LET total == Len(w.notes) IN
    [w EXCEPT !.title_label =
        IF strip(w.search) # <<>> THEN <<Cardinality(visible(w)), "of", total>>
        ELSE IF total > 0 THEN <<total, "notes">> ELSE <<"Notes">>]

\* NotesList._update_empty_state: the list widget is shown ("list"), or the
\* empty label with one of its two texts
update_empty_state(w) ==
    [w EXCEPT !.empty_state =
        IF Len(w.notes) = 0 THEN "No notes yet"
        ELSE IF visible(w) = {} /\ strip(w.search) # <<>> THEN "No notes found"
        ELSE "list"]

\* an _on_search_changed that takes the rows that do not match out of the
\* list, and the current row with them
on_search_changed_removing(w, text) ==
    LET query == strip(lower(text))
        matches(note) ==
            \/ query = <<>>
            \/ contains(lower(w.heap[note].title), query)
            \/ contains(lower(to_plain_text(w.heap[note].content)), query)
    IN  update_empty_state(update_title(
            [w EXCEPT !.search = text,
                      !.notes = SelectSeq(@, matches),
                      !.items = SelectSeq(@, LAMBDA r : matches(r.note)),
                      !.current_row =
                          IF \A i \in DOMAIN w.items : matches(w.items[i].note)
                          THEN @ ELSE None]))

\* NotesList._on_search_changed, the slot of the search box's textChanged
on_search_changed(w, text) ==
    LET query == strip(lower(text))
        shown(r) ==
            LET note == w.heap[r.note]
                plain_content == to_plain_text(note.content)
                matches == \/ contains(lower(note.title), query)
                           \/ contains(lower(plain_content), query)
            IN  [r EXCEPT !.hidden = IF query # <<>> THEN ~matches ELSE FALSE]
    IN  update_empty_state(update_title(
            [w EXCEPT !.search = text,
                      !.items = [i \in DOMAIN @ |-> shown(@[i])]]))

\* NotesList.set_notes: _refresh_list clears the widget, which leaves no
\* current row, and adds a row per note; at the first note whose row cannot
\* be built the TypeError leaves set_notes, with the rows added before it
set_notes(w, notes) ==
    LET bad == {i \in DOMAIN notes : format_time_raises(w.heap[notes[i]])}
        w1 == [w EXCEPT !.notes = notes, !.current_row = None]
    IN  IF bad = {}
        THEN update_title(update_empty_state(
                 [w1 EXCEPT !.items = [i \in DOMAIN notes |-> NoteListItem(w, notes[i])]]))
        ELSE raise([w1 EXCEPT !.items = [i \in 1..(first_of(bad) - 1) |->
                                            NoteListItem(w, notes[i])]],
                   "TypeError")

\* an add_note that puts the note at the end
add_note_at_end(w, note) ==
    update_title(
        [w EXCEPT !.notes = @ \o <<note>>, !.items = @ \o <<NoteListItem(w, note)>>])

\* NotesList.add_note: the note goes into _notes before its row is built;
\* insertItem(0, item) moves the current row one position down
add_note(w, note) ==
    IF format_time_raises(w.heap[note])
    THEN raise([w EXCEPT !.notes = <<note>> \o @], "TypeError")
    ELSE update_title(
             [w EXCEPT !.notes = <<note>> \o @,
                       !.items = <<NoteListItem(w, note)>> \o @,
                       !.current_row = IF @ = None THEN None ELSE @ + 1])

\* an update_note that moves the note it updates to the front
update_note_to_front(w, note) ==
    LET id == w.heap[note].id IN
    IF notes_with(w, id) = {} THEN w
    ELSE [w EXCEPT !.notes = <<note>> \o SelectSeq(@, LAMBDA n : w.heap[n].id # id),
                   !.items = <<NoteListItem(w, note)>>
                             \o SelectSeq(@, LAMBDA r : w.heap[r.note].id # id),
                   !.current_row = None]

\* NotesList.update_note: the first note of _notes with the identifier of
\* the note gives way to the note, and the row at its position is made to
\* refer to the note (NoteListItem.update_note) and rebuilds its display
\* text, unless _format_time raises before setText
update_note(w, note) ==
    LET hits == notes_with(w, w.heap[note].id) IN
    IF hits = {} THEN w
    ELSE LET i == first_of(hits)
             w1 == [w EXCEPT !.notes[i] = note]
         IN  IF i \notin DOMAIN w.items THEN w1
             ELSE IF format_time_raises(w.heap[note])
             THEN raise([w1 EXCEPT !.items[i].note = note], "TypeError")
             ELSE [w1 EXCEPT !.items[i] = [@ EXCEPT !.note = note,
                                                    !.title = w.heap[note].title]]

\* the rows without the first row of a note of the identifier:
\* QListWidget.takeItem
take_item(w, note_id) ==
    LET hits == items_with(w, note_id) IN
    IF hits = {} THEN w.items
    ELSE SubSeq(w.items, 1, first_of(hits) - 1)
         \o SubSeq(w.items, first_of(hits) + 1, Len(w.items))

\* the position of the current row once row i, the current one, has been
\* taken out of the widget (QAbstractItemView.rowsAboutToBeRemoved): the next
\* row below it that is not hidden, else the next such row above it, and no
\* row when it was the only row.  When every row left is hidden Qt leaves no
\* current row, or (stray) the last row it looked at: the top row, or the
\* bottom row when the row taken out was the top one.  The rows below row i
\* have moved one position up.
current_after_take(items, i, stray) ==
    LET below == {k \in (i + 1)..Len(items) : ~items[k].hidden}
        above == {k \in 1..(i - 1) : ~items[k].hidden}
    IN  IF Len(items) = 1 THEN None
        ELSE IF below # {} THEN first_of(below) - 1
        ELSE IF above # {}
        THEN CHOOSE k \in above : \A m \in above : k >= m
        ELSE IF ~stray THEN None
        ELSE IF i > 1 THEN 1 ELSE Len(items) - 1

\* the position of the current row once row i has been taken out
current_without(w, i, stray) ==
    IF w.current_row = None \/ w.current_row < i THEN w.current_row
    ELSE IF w.current_row > i THEN w.current_row - 1
    ELSE current_after_take(w.items, i, stray)

\* a remove_note that removes the first note of the list when none has the
\* identifier
remove_note_or_first(w, note_id, stray) ==
    IF notes_with(w, note_id) # {}
    THEN [w EXCEPT !.notes = SelectSeq(@, LAMBDA n : w.heap[n].id # note_id),
                   !.items = take_item(w, note_id),
                   !.current_row = None]
    ELSE [w EXCEPT !.notes = SubSeq(@, 2, Len(@)), !.items = SubSeq(@, 2, Len(@)),
                   !.current_row = None]

\* NotesList.remove_note: every note of the identifier leaves _notes, and the
\* first row of a note of the identifier leaves the widget, which moves the
\* current row when that row was the current one
remove_note(w, note_id, stray) ==
    LET hits == items_with(w, note_id) IN
    update_title(
        [w EXCEPT !.notes = SelectSeq(@, LAMBDA n : w.heap[n].id # note_id),
                  !.items = take_item(w, note_id),
                  !.current_row =
                      IF hits = {} THEN @ ELSE current_without(w, first_of(hits), stray)])

\* a select_note that clears the selection when no row has the identifier
select_note_or_clear(w, note_id) ==
    IF items_with(w, note_id) # {}
    THEN [w EXCEPT !.current_row = first_of(items_with(w, note_id))]
    ELSE [w EXCEPT !.current_row = None]

\* NotesList.select_note: the first row of a note of the identifier becomes
\* the current row
select_note(w, note_id) ==
    IF items_with(w, note_id) # {}
    THEN [w EXCEPT !.current_row = first_of(items_with(w, note_id))] ELSE w

\* the reference of the note of the current row, or None
current_item_note(w) ==
    IF w.current_row = None THEN None ELSE w.items[w.current_row].note

\* NotesList.get_selected_note
get_selected_note(w) ==
    IF w.current_row = None THEN None ELSE w.heap[current_item_note(w)]

\* the heap without the objects nothing refers to any more
collect(w, kept) ==
    [w EXCEPT !.heap =
        [r \in {x \in DOMAIN @ :
                    \/ x \in kept
                    \/ \E i \in DOMAIN w.notes : w.notes[i] = x
                    \/ \E i \in DOMAIN w.items : w.items[i].note = x} |-> @[r]]]

-----------------------------------------------------------------------------
(* MainWindow.  w is the window with everything it owns:                    *)
(*   storage         the notes directory                                    *)
(*   heap            the Note objects alive, by reference                   *)
(*   notes, items, current_row, search, title_label, empty_state            *)
(*                   the NotesList                                          *)
(*   notice          the text of the message box the last handler showed    *)
(*   asking          the identifier the open "Delete Note" question is      *)
(*                   about                                                  *)
(*   current_note    reference of self.current_note, or None                *)
(*   text            the text in the editor                                 *)
(*   has_manager, asm   self._auto_save_manager, and whether it is set      *)
(*   window          open, closing (fading out), closed, or aborted         *)
(*   next_id         the next fresh note identifier                         *)
(* and the bookkeeping:                                                     *)
(*   owed            the user has typed, and _save_current_note has not     *)
(*                   handed the editor text to the store since              *)
(*   burst_text      the editor text at the trigger() that started the      *)
(*                   running countdown                                      *)
(*   io_failures     the storage operations that have failed                *)
(*   track_text      whether the two fields below are kept                  *)
(*   text_for        the note (by reference) the editor text belongs to:    *)
(*                   the note it was loaded from, or the current note when  *)
(*                   it was typed                                           *)

\* the number of note identifiers; the number of storage operations that
\* fail in one run
MaxNotes == 2
MaxIoFailures == 1

\* the texts the user types
UserTexts == {<<>>, <<"a">>}

\* the process has ended: what is left is the notes directory
ended(w, how) ==
    [storage |-> w.storage, heap |-> NoFiles, notes |-> <<>>, items |-> <<>>,
     current_row |-> None, search |-> <<>>, title_label |-> <<"Notes">>,
     empty_state |-> "list", notice |-> "none", asking |-> None,
     current_note |-> None, text |-> <<>>, has_manager |-> FALSE,
     asm |-> AutoSaveManager(DefaultDelayMs), window |-> how, next_id |-> w.next_id,
     owed |-> FALSE, burst_text |-> <<>>, io_failures |-> w.io_failures,
     track_text |-> w.track_text, text_for |-> None, raised |-> "none"]

\* the window with the record of whose text the editor holds
belongs(w, text_for) ==
    IF w.track_text THEN [w EXCEPT !.text_for = text_for] ELSE w

\* an exception that leaves a slot ends the process (PyQt calls qFatal)
abort(w) == ended(w, "aborted")
aborted(w) == w.window = "aborted"

\* RichTextEditor.get_html
get_html(w) == to_html(w.text)

\* the editor's content_changed signal: AutoSaveManager.trigger when connected
content_changed(w, clock) ==
    IF ~w.has_manager THEN w
    ELSE IF trigger_raises(w.asm) THEN abort(w)
    ELSE [w EXCEPT !.asm = trigger(@, clock),
                   !.burst_text = IF w.asm.timer.active THEN @ ELSE w.text]

\* RichTextEditor.set_html while content_changed is connected to nothing.
\* An empty html is set at once.  Any other html is handed to cross_fade,
\* which is to call setHtml when its fade-out has finished; the fade-out
\* never finishes: fade_out() starts it, fade_in() then starts an animation
\* of the same property of the same effect, which makes Qt stop the first at
\* time 0, and the start of the sequence stops it at time 0 once more; an
\* animation stopped before its end emits no finished.  The editor keeps the
\* text it has
set_html(w, html) ==
    IF html = <<>>
    THEN belongs([w EXCEPT !.text = <<>>], w.current_note)
    ELSE w

\* a save that commits the text the editor held when the countdown started
content_at_first_trigger(w) == to_html(w.burst_text)

failed(outcome) == IF outcome = "ok" THEN 0 ELSE 1

\* QMessageBox.warning: the handler shows the text and goes on when the user
\* has closed the box
warning(w, text) == [w EXCEPT !.notice = text]

\* the window when the next handler starts: no message box is open
dismissed(w) == [w EXCEPT !.notice = "none"]

\* the content _save_current_note commits to the current note
content_to_save(w) == get_html(w)

\* the window when a handler has returned: the Note objects nothing refers
\* to any more are gone
released(w) == collect(w, {w.current_note} \ {None})

\* MainWindow._save_current_note
save_current_note(w, outcome, clock) ==
    IF w.current_note = None THEN w
    ELSE LET content == content_to_save(w)
             note == update_content(w.heap[w.current_note], content, clock)
             w1 == [w EXCEPT !.heap[w.current_note] = note,
                             !.storage = save_note(@, note, outcome),
                             !.io_failures = @ + failed(outcome),
                             !.owed = FALSE]
         IN  IF save_note_result(outcome)
             THEN update_note(w1, w.current_note) ELSE w1

\* self._auto_save_manager.save_now() with _save_current_note as the callback
manager_save_now(w, outcome, clock) ==
    IF timer_gone(w.asm.timer) THEN abort(w)
    ELSE save_current_note([w EXCEPT !.asm = save_now(@)], outcome, clock)

\* MainWindow._on_note_selected, its first statement: save_now() when there
\* is a current note and a scheduler
saved_before_switch(w, outcome, clock) ==
    IF w.current_note # None /\ w.has_manager
    THEN manager_save_now(w, outcome, clock) ELSE w

\* MainWindow._on_note_selected.  The old AutoSaveManager loses its last
\* reference when the new one is assigned: its QTimer goes with it, and so
\* does a countdown that save_now() has not stopped.
on_note_selected(w, note, outcome, clock) ==
    LET w1 == saved_before_switch(w, outcome, clock)
    IN  IF aborted(w1) THEN w1
        ELSE LET w2 == set_html([w1 EXCEPT !.current_note = note],
                                w1.heap[note].content)
             IN  released([w2 EXCEPT !.asm = AutoSaveManager(DefaultDelayMs),
                                     !.has_manager = TRUE])

\* MainWindow._create_new_note
create_new_note(w, outcome_new, outcome_current, clock) ==
    LET note == update_content(Note(w.next_id, clock), <<>>, clock)
        w1 == [w EXCEPT !.next_id = @ + 1,
                        !.storage = save_note(@, note, outcome_new),
                        !.io_failures = @ + failed(outcome_new)]
    IN  IF save_note_result(outcome_new)
        THEN on_note_selected(
                 select_note(add_note([w1 EXCEPT !.heap = put(@, note.id, note)],
                                      note.id), note.id),
                 note.id, outcome_current, clock)
        ELSE warning(w1, "Failed to create new note. Please try again.")

\* MainWindow._delete_note
delete_note_confirmed(w, note_id, outcome, stray, clock) ==
    LET w1 == [w EXCEPT !.storage = delete_note(@, note_id, outcome),
                        !.io_failures = @ + failed(outcome)]
    IN  IF delete_note_result(w.storage, note_id, outcome)
        THEN LET w2 == remove_note(w1, note_id, stray) IN
             IF w2.current_note # None /\ w2.heap[w2.current_note].id = note_id
             THEN content_changed(
                      belongs(released([w2 EXCEPT !.current_note = None,
                                                  !.text = <<>>,
                                                  !.owed = FALSE]),
                              None),
                      clock)
             ELSE released(w2)
        ELSE warning(w1, "Failed to delete note. Please try again.")

\* MainWindow.closeEvent.  With _is_closing set the event is accepted: the
\* window closes and, being the last window, ends the application.  The
\* first time: save, clean up, start the fade-out
close_event(w, outcome, clock) ==
    IF w.window = "closing" THEN ended(w, "closed")
    ELSE LET w1 == IF w.current_note # None /\ w.has_manager
                   THEN manager_save_now([w EXCEPT !.window = "closing"],
                                         outcome, clock)
                   ELSE [w EXCEPT !.window = "closing"]
         IN  IF aborted(w1) \/ ~w1.has_manager THEN released(w1)
             ELSE released([w1 EXCEPT !.asm = cleanup(@)])

\* uuid.uuid4() for the first note made in a run: an identifier no file of
\* the directory has, in its name or in its record
unused_id(files) ==
    LET used == {0} \cup DOMAIN files \cup {files[k].data.id : k \in DOMAIN files}
    IN  1 + CHOOSE n \in used : \A m \in used : n >= m

\* MainWindow._load_notes finds no note to load and creates the welcome note
first_run(files) == load_all_notes(files, "ok", {}) = {<<>>}

\* the notes directory when _load_notes loads it for the list: as it was
\* found, or with the welcome note
first_directory(files, outcome, clock) ==
    IF first_run(files)
    THEN save_note(files, create_welcome_note(unused_id(files), clock), outcome)
    ELSE files

\* MainWindow.__init__ on the notes directory files: _load_notes creates the
\* welcome note when load_all_notes returns no note and loads the directory
\* again, hands the notes to the list, selects the row of the identifier of
\* the first note and makes the first note the current one.  order is the
\* order in which load_all_notes returns the files.
MainWindow(files, outcome, order, clock) ==
    LET storage == first_directory(files, outcome, clock)
        w0 == set_notes(
              [storage |-> storage,
               heap |-> [r \in {order[i] : i \in DOMAIN order} |->
                            from_dict(storage[r].data, None, 0)],
               notes |-> <<>>, items |-> <<>>,
               search |-> <<>>, title_label |-> <<"Notes">>,
               empty_state |-> "list", notice |-> "none", asking |-> None,
               current_row |-> None, current_note |-> None,
               text |-> <<>>,
               has_manager |-> FALSE, asm |-> AutoSaveManager(DefaultDelayMs),
               window |-> "open",
               next_id |-> IF first_run(files) THEN unused_id(files) + 1
                           ELSE unused_id(files),
               owed |-> FALSE, burst_text |-> <<>>,
               io_failures |-> IF first_run(files) THEN failed(outcome) ELSE 0,
               track_text |-> FALSE, text_for |-> None, raised |-> "none"],
              order)
    IN  IF w0.raised # "none" THEN abort(w0)
        ELSE IF order = <<>> THEN w0
        ELSE on_note_selected(select_note(w0, w0.heap[order[1]].id), order[1],
                              "ok", clock)

\* the window while only the scheduler is looked at
NoWindow == MainWindow(NoFiles, "open_error", <<>>, 0)

-----------------------------------------------------------------------------
(* Bookkeeping *)

\* what an operation did: its name, whether a countdown was running when it
\* was called, how often it invoked the save callback, how the callback
\* ended, and the exception that escaped to the caller
Last(op, self, invoked, cb, escaped) ==
    [op |-> op, was_pending |-> self.timer.active, invoked |-> invoked,
     cb |-> cb, escaped |-> escaped]

Pending == asm.timer.active

\* len: trigger() calls of the burst (counted up to MaxBurst); time and delay:
\* the clock and delay_ms at the last trigger() that reached the timer;
\* fires: timer-fired saves since then; settled: the call, if any, that has
\* stopped the timer since then; failed: a callback has raised an Exception;
\* epoch: flips at every trigger() call
NoHist == [len |-> 0, time |-> 0, delay |-> 0, fires |-> 0, settled |-> "no",
           failed |-> FALSE, epoch |-> 0]

Min(a, b) == IF a < b THEN a ELSE b

hist_after_trigger(h, self, clock) ==
    [h EXCEPT !.len = IF self.timer.active THEN Min(@ + 1, MaxBurst) ELSE 1,
              !.time = clock, !.delay = self.delay_ms, !.fires = 0,
              !.settled = "no", !.epoch = 1 - @]

hist_after_callback(h, outcome) ==
    [h EXCEPT !.failed = @ \/ outcome \in CallbackFailures]

-----------------------------------------------------------------------------
(* The scheduler on its own, with a clock and an abstract save callback *)

SchedInit ==
    /\ loop = <<>>
    /\ now = 0
    /\ asm = AutoSaveManager(DefaultDelayMs)
    /\ last = Last("init", AutoSaveManager(DefaultDelayMs), 0, "none", "none")
    /\ hist = NoHist
    /\ win = NoWindow
    /\ disk = <<>>
    /\ obj = <<>>
    /\ lst = <<>>

\* editor.content_changed -> AutoSaveManager.trigger
Trigger ==
    /\ now + asm.delay_ms <= MaxTime
    /\ asm' = trigger(asm, now)
    /\ last' = Last("trigger", asm, 0, "none",
                    IF trigger_raises(asm) THEN "RuntimeError" ELSE "none")
    /\ hist' = IF asm.is_enabled /\ ~timer_gone(asm.timer)
               THEN hist_after_trigger(hist, asm, now)
               ELSE [hist EXCEPT !.epoch = 1 - @]
    /\ UNCHANGED <<now, win, disk, obj, lst, loop>>

\* QTimer.timeout -> AutoSaveManager._on_save
Timeout ==
    /\ timeout_due(asm, now)
    /\ asm' = timer_fired(asm)
    /\ \E outcome \in CallbackOutcomes : \E escaped \in on_save(outcome) :
          /\ last' = Last("timeout", asm, 1, outcome, escaped)
          /\ hist' = hist_after_callback(
                         [hist EXCEPT !.fires = Min(@ + 1, MaxBurst)], outcome)
    /\ UNCHANGED <<now, win, disk, obj, lst, loop>>

\* AutoSaveManager.save_now
SaveNow ==
    /\ asm' = save_now(asm)
    /\ IF timer_gone(asm.timer)
       THEN /\ last' = Last("save_now", asm, 0, "none", "RuntimeError")
            /\ hist' = hist
       ELSE \E outcome \in CallbackOutcomes : \E escaped \in on_save(outcome) :
               /\ last' = Last("save_now", asm, 1, outcome, escaped)
               /\ hist' = hist_after_callback(
                              [hist EXCEPT !.settled = "save_now"], outcome)
    /\ UNCHANGED <<now, win, disk, obj, lst, loop>>

Enable ==
    /\ asm' = enable(asm)
    /\ last' = Last("enable", asm, 0, "none", "none")
    /\ UNCHANGED <<now, hist, win, disk, obj, lst, loop>>

Disable ==
    /\ asm' = disable(asm)
    /\ last' = Last("disable", asm, 0, "none",
                    IF timer_gone(asm.timer) THEN "RuntimeError" ELSE "none")
    /\ hist' = IF timer_gone(asm.timer) THEN hist
               ELSE [hist EXCEPT !.settled = "disable"]
    /\ UNCHANGED <<now, win, disk, obj, lst, loop>>

SetDelay ==
    /\ \E ms \in DelayChoices : asm' = set_delay(asm, ms)
    /\ last' = Last("set_delay", asm, 0, "none", "none")
    /\ UNCHANGED <<now, hist, win, disk, obj, lst, loop>>

Cleanup ==
    /\ asm' = cleanup(asm)
    /\ last' = Last("cleanup", asm, 0, "none",
                    IF timer_gone(asm.timer) THEN "RuntimeError" ELSE "none")
    /\ hist' = IF timer_gone(asm.timer) THEN hist
               ELSE [hist EXCEPT !.settled = "cleanup"]
    /\ UNCHANGED <<now, win, disk, obj, lst, loop>>

\* the event loop carries out the deletion posted by deleteLater()
DeferredDelete ==
    /\ asm.timer.obj = "deleteLater"
    /\ asm' = deferred_delete(asm)
    /\ last' = Last("deferred_delete", asm, 0, "none", "none")
    /\ UNCHANGED <<now, hist, win, disk, obj, lst, loop>>

\* time passes, whatever the timer does: up to the next moment at which
\* something changes for the timer (the first moment its timeout can be
\* delivered, the end of its countdown), and on past the end of a countdown
\* whose timeout has not been delivered yet; a posted deletion is carried out
\* before the loop waits
Tick ==
    /\ asm.timer.obj # "deleteLater"
    /\ now < MaxTime
    /\ now' = IF asm.timer.active /\ now < asm.timer.earliest
                                  /\ asm.timer.earliest < now + TickMs
              THEN asm.timer.earliest
              ELSE IF asm.timer.active /\ now < asm.timer.deadline
                                       /\ asm.timer.deadline < now + TickMs
              THEN asm.timer.deadline
              ELSE Min(now + TickMs, MaxTime)
    /\ last' = Last("tick", asm, 0, "none", "none")
    /\ UNCHANGED <<asm, hist, win, disk, obj, lst, loop>>

SchedNext ==
    \/ Trigger
    \/ Timeout
    \/ SaveNow
    \/ Enable
    \/ Disable
    \/ SetDelay
    \/ Cleanup
    \/ DeferredDelete
    \/ Tick

SchedSpec == SchedInit /\ [][SchedNext]_vars

\* the Qt event loop keeps running: a due timeout is delivered and time passes
SchedFairSpec == SchedSpec /\ WF_vars(Timeout) /\ WF_vars(Tick)

-----------------------------------------------------------------------------
(* The application: the window, its editor, list and store, and the user.   *)
(* Elapsed time is not tracked here: the clock stays at 0 and a running     *)
(* countdown may run out at any later step.                                 *)

\* the stem of a copy of the record file <id>.json, as a file manager or a
\* sync client makes one ("<id> copy.json"): no identifier
copy_stem(id) == 0 - id

\* the notes the program has written in an earlier run: a note with the text
\* the user types, and a note that was created and left empty
AppNotes == {update_content(Note(1, 0), content, 0) : content \in {to_html(<<"a">>), <<>>}}

\* the notes directories the application starts on: the empty directory of
\* the first run, a directory with a note of an earlier run, and a
\* directory in which the record file of a note with text has been copied
AppDirectories ==
    {NoFiles}
    \cup {put(NoFiles, note.id, File(to_dict(note))) : note \in AppNotes}
    \cup {put(put(NoFiles, note.id, File(to_dict(note))),
              copy_stem(note.id), File(to_dict(note))) :
             note \in {n \in AppNotes : n.content # <<>>}}

AppInit ==
    /\ loop = <<>>
    /\ now = 0
    /\ asm = AutoSaveManager(DefaultDelayMs)
    /\ last = Last("init", AutoSaveManager(DefaultDelayMs), 0, "none", "none")
    /\ hist = NoHist
    /\ disk = <<>>
    /\ obj = <<>>
    /\ lst = <<>>
    /\ \E files \in AppDirectories, outcome \in SaveOutcomes :
          \E order \in load_order(first_directory(files, outcome, 0), "ok", {}) :
              /\ win = MainWindow(files, outcome, order, 0)
              /\ win.io_failures <= MaxIoFailures

\* the window is there and takes events: it is open, or closing, which is
\* the 200 ms of the fade-out closeEvent has started.  _is_closing is read
\* by closeEvent only, so every other handler runs in a closing window as it
\* does in an open one
Running == win.window \in {"open", "closing"}

\* the user can reach the window: no question box, which is modal, waits for
\* an answer
UserActs == Running /\ win.asking = None

\* the rows the user can click: those not hidden, while the list widget is
\* the one shown
Clickable == IF win.empty_state = "list" THEN visible(win) ELSE {}

\* the texts the user types into the search box
AppQueries == {<<>>, <<"a">>}

\* the user types or erases: QTextEdit.textChanged -> content_changed
UserEdit ==
    /\ UserActs
    /\ \E text \in UserTexts :
          /\ text # win.text
          /\ win' = content_changed(
                        belongs([dismissed(win) EXCEPT !.text = text,
                                                       !.owed = TRUE],
                                win.current_note),
                        now)
    /\ UNCHANGED <<schedVars, disk, obj, lst, loop>>

\* a click on a row: NotesList.note_selected -> _on_note_selected
SelectNote ==
    /\ UserActs
    /\ \E i \in Clickable, outcome \in SaveOutcomes :
          win' = on_note_selected(
                     [dismissed(win) EXCEPT !.current_row = i],
                     win.items[i].note, outcome, now)
    /\ win'.io_failures <= MaxIoFailures
    /\ UNCHANGED <<schedVars, disk, obj, lst, loop>>

\* the + button or Ctrl+N
CreateNewNote ==
    /\ UserActs
    /\ win.next_id <= MaxNotes
    /\ \E outcome_new, outcome_current \in SaveOutcomes :
          win' = create_new_note(dismissed(win), outcome_new, outcome_current, now)
    /\ win'.io_failures <= MaxIoFailures
    /\ UNCHANGED <<schedVars, disk, obj, lst, loop>>

\* the arrow keys, or a press of the right mouse button, move the current
\* row of the list; no signal the window listens to is emitted (only
\* itemClicked is connected)
MoveCurrentRow ==
    /\ UserActs
    /\ \E i \in Clickable :
          /\ i # win.current_row
          /\ win' = [dismissed(win) EXCEPT !.current_row = i]
    /\ UNCHANGED <<schedVars, disk, obj, lst, loop>>

\* the user types into the search box: textChanged -> _on_search_changed
Search ==
    /\ UserActs
    /\ \E text \in AppQueries :
          /\ text # win.search
          /\ win' = on_search_changed(dismissed(win), text)
    /\ UNCHANGED <<schedVars, disk, obj, lst, loop>>

\* "Delete Note" in the context menu of a row (item.note.id), or the Delete
\* key, which takes the note of the current row (get_selected_note().id):
\* _delete_note opens the question box and waits in its event loop for the
\* answer
AskDelete ==
    /\ UserActs
    /\ \E i \in Clickable \cup ({win.current_row} \ {None}) :
          win' = [dismissed(win) EXCEPT !.asking = win.heap[win.items[i].note].id]
    /\ UNCHANGED <<schedVars, disk, obj, lst, loop>>

\* the user answers the question box: _delete_note goes on after
\* QMessageBox.question
AnswerDelete ==
    /\ Running
    /\ win.asking # None
    /\ \E reply \in {"Yes", "No"}, outcome \in DeleteOutcomes, stray \in BOOLEAN :
          win' = IF reply = "Yes"
                 THEN delete_note_confirmed([win EXCEPT !.asking = None], win.asking,
                                            outcome, stray, now)
                 ELSE [win EXCEPT !.asking = None]
    /\ win'.io_failures <= MaxIoFailures
    /\ UNCHANGED <<schedVars, disk, obj, lst, loop>>

\* Ctrl+S -> _save_current_note
CtrlS ==
    /\ UserActs
    /\ \E outcome \in SaveOutcomes :
          win' = released(save_current_note(dismissed(win), outcome, now))
    /\ win'.io_failures <= MaxIoFailures
    /\ UNCHANGED <<schedVars, disk, obj, lst, loop>>

\* the countdown of the window's scheduler runs out: _on_save ->
\* _save_current_note
AppTimeout ==
    /\ Running
    /\ win.has_manager
    /\ win.asm.timer.obj = "alive"
    /\ win.asm.timer.active
    /\ \E outcome \in SaveOutcomes :
          win' = released(save_current_note(
                     [dismissed(win) EXCEPT !.asm = timer_fired(@)], outcome, now))
    /\ win'.io_failures <= MaxIoFailures
    /\ UNCHANGED <<schedVars, disk, obj, lst, loop>>

\* Ctrl+Q or the close button: closeEvent
Close ==
    /\ UserActs
    /\ \E outcome \in SaveOutcomes :
          win' = close_event(dismissed(win), outcome, now)
    /\ win'.io_failures <= MaxIoFailures
    /\ UNCHANGED <<schedVars, disk, obj, lst, loop>>

\* the event loop carries out the deletion cleanup() has posted
AppDeferredDelete ==
    /\ Running
    /\ win.has_manager
    /\ win.asm.timer.obj = "deleteLater"
    /\ win' = [dismissed(win) EXCEPT !.asm = deferred_delete(@)]
    /\ UNCHANGED <<schedVars, disk, obj, lst, loop>>

\* the fade-out ends: actually_close calls close(), and closeEvent accepts
\* the event.  An open question box ends with the application, unanswered
FinishClose ==
    /\ win.window = "closing"
    /\ win' = close_event(win, "ok", now)
    /\ UNCHANGED <<schedVars, disk, obj, lst, loop>>

AppNext ==
    \/ UserEdit
    \/ SelectNote
    \/ CreateNewNote
    \/ MoveCurrentRow
    \/ Search
    \/ AskDelete
    \/ AnswerDelete
    \/ CtrlS
    \/ AppTimeout
    \/ Close
    \/ AppDeferredDelete
    \/ FinishClose

AppSpec == AppInit /\ [][AppNext]_vars

\* the window after __init__ with the record of whose text the editor holds
tracked(w) ==
    [w EXCEPT !.track_text = TRUE,
              !.text_for = IF w.current_note = None THEN None
                           ELSE IF w.heap[w.current_note].content = <<>>
                           THEN w.current_note ELSE None]

\* the window that opens as in AppInit, with the record of whose text the
\* editor holds: the editor is empty, and the content of the first note, if
\* it is not empty, has not been put into it
TextInit ==
    /\ loop = <<>>
    /\ now = 0
    /\ asm = AutoSaveManager(DefaultDelayMs)
    /\ last = Last("init", AutoSaveManager(DefaultDelayMs), 0, "none", "none")
    /\ hist = NoHist
    /\ disk = <<>>
    /\ obj = <<>>
    /\ lst = <<>>
    /\ \E files \in AppDirectories, outcome \in SaveOutcomes :
          \E order \in load_order(first_directory(files, outcome, 0), "ok", {}) :
              /\ win = tracked(MainWindow(files, outcome, order, 0))
              /\ win.io_failures <= MaxIoFailures

TextSpec == TextInit /\ [][AppNext]_vars


-----------------------------------------------------------------------------
(* A StorageManager on its own: its five operations, called in any order on *)
(* a notes directory.  disk.files is the directory, the other fields record *)
(* the last call: the directory before it, its name, its argument, how its  *)
(* I/O ended, what it returned and what it raised.                          *)

\* note identifiers 1..MaxStoreIds
MaxStoreIds == 3

StoreIds == 1..MaxStoreIds
\* the instants of the timestamps
Stamps == {0, 1}
StoreContents == {<<>>, <<"<p>", "a", "</p>">>}

\* the notes the owner of the store saves under an identifier
StoreNotes ==
    [id \in StoreIds |->
        {update_content(Note(id, 0), c, t) : c \in StoreContents, t \in Stamps}]

\* a complete record whose modified_at carries a UTC offset, as ISO-8601
\* allows and another writer of the directory may leave
OffsetRecords ==
    [id \in StoreIds |->
        {[to_dict(Note(id, 0)) EXCEPT
              !.modified_at = isoformat([at |-> t, tz |-> "utc"])] : t \in Stamps}]

\* what the file <id>.json can hold when the store is opened
StoreFiles ==
    [id \in StoreIds |->
        {Truncated} \cup {File(to_dict(n)) : n \in StoreNotes[id]}
                    \cup {File(d) : d \in OffsetRecords[id]}]

\* the directories the store can be opened on
Directories ==
    UNION {{f \in [S -> UNION {StoreFiles[i] : i \in S}] :
                \A i \in S : f[i] \in StoreFiles[i]} : S \in SUBSET StoreIds}

Call(before, files, op, arg, outcome, result, raised) ==
    [before |-> before, files |-> files, op |-> op, arg |-> arg,
     outcome |-> outcome, unread |-> {}, result |-> result, raised |-> raised]

\* how creating the storage directory can end
MkdirOutcomes == {"ok", "error"}

\* what leaves StorageManager.__init__: _ensure_storage_dir logs what mkdir
\* raises and raises it again
init_raises(outcome) == IF outcome = "ok" THEN "none" ELSE "Exception"

StoreInit ==
    /\ loop = <<>>
    /\ now = 0
    /\ asm = AutoSaveManager(DefaultDelayMs)
    /\ last = Last("init", AutoSaveManager(DefaultDelayMs), 0, "none", "none")
    /\ hist = NoHist
    /\ win = NoWindow
    /\ obj = <<>>
    /\ lst = <<>>
    /\ \E files \in Directories, outcome \in MkdirOutcomes :
          /\ outcome # "ok" => files = NoFiles
          /\ disk = Call(files, files, "init", None, outcome, None,
                         init_raises(outcome))

\* the constructor has returned: there is a StorageManager to call
Constructed == disk.op = "init" => disk.raised = "none"

\* save_note(note)
StoreSave ==
    /\ Constructed
    /\ \E id \in StoreIds, outcome \in SaveOutcomes :
          \E note \in StoreNotes[id] :
              disk' = Call(disk.files,
                           save_note(disk.files, note, outcome), "save", note,
                           outcome, save_note_result(outcome),
                           save_note_raises(outcome))
    /\ UNCHANGED <<schedVars, win, obj, lst, loop>>

\* load_note(note_id)
StoreLoad ==
    /\ Constructed
    /\ \E id \in StoreIds, outcome \in ReadOutcomes :
          disk' = Call(disk.files, disk.files, "load", id, outcome,
                       load_note(disk.files, id, outcome), "none")
    /\ UNCHANGED <<schedVars, win, obj, lst, loop>>

\* load_all_notes()
StoreLoadAll ==
    /\ Constructed
    /\ \E listing \in ListOutcomes, unread \in SUBSET DOMAIN disk.files :
          \E notes \in load_all_notes(disk.files, listing, unread) :
              disk' = [Call(disk.files, disk.files, "load_all", None, listing,
                            notes, "none") EXCEPT !.unread = unread]
    /\ UNCHANGED <<schedVars, win, obj, lst, loop>>

\* delete_note(note_id)
StoreDelete ==
    /\ Constructed
    /\ \E id \in StoreIds, outcome \in DeleteOutcomes :
          disk' = Call(disk.files,
                       delete_note(disk.files, id, outcome), "delete", id,
                       outcome, delete_note_result(disk.files, id, outcome),
                       "none")
    /\ UNCHANGED <<schedVars, win, obj, lst, loop>>

\* get_note_count()
StoreCount ==
    /\ Constructed
    /\ \E outcome \in ListOutcomes :
          disk' = Call(disk.files, disk.files, "count", None, outcome,
                       get_note_count(disk.files, outcome), "none")
    /\ UNCHANGED <<schedVars, win, obj, lst, loop>>

StoreNext ==
    \/ StoreSave
    \/ StoreLoad
    \/ StoreLoadAll
    \/ StoreDelete
    \/ StoreCount

StoreSpec == StoreInit /\ [][StoreNext]_vars

-----------------------------------------------------------------------------
(* A Note object on its own: created, given contents, written to a          *)
(* dictionary and read back, while the clock (now) changes.  obj.note is    *)
(* the object, obj.op and obj.arg the last operation and its argument, and  *)
(* obj.repeat tells that the operation before it was the same call.         *)

\* the wall clock reads a value from 0 to MaxNoteClock
MaxNoteClock == 1

NoteIds == {1, 2}

\* a line of n characters
Line(n) == [i \in 1..n |-> "a"]
LineLengths == {1, TitleMax - 1, TitleMax, TitleMax + 1}

\* the contents a note is given: nothing, white space, empty markup; a line
\* as raw text, as a paragraph, as a paragraph after leading white space, as
\* a heading that a paragraph follows, and after a word and a newline
NoteContents ==
    {<<>>, <<" ">>, <<"\n">>, <<"<p>", "</p>">>}
    \cup {Line(n) : n \in LineLengths}
    \cup {<<"<p>">> \o Line(n) \o <<"</p>">> : n \in LineLengths}
    \cup {<<"\n", " ", "<p>">> \o Line(n) \o <<"</p>">> : n \in LineLengths}
    \cup {<<"<h1>">> \o Line(n) \o <<"</h1>", "<p>", "a", "</p>">> :
              n \in LineLengths}
    \cup {<<"a", "\n">> \o Line(n) : n \in LineLengths}

NoteKeys == {"id", "title", "content", "created_at", "modified_at", "is_favorite"}
\* the keys a dictionary handed to from_dict may lack
MissingKeys == SUBSET NoteKeys

\* a dictionary without some of its keys
without(data, keys) == [k \in DOMAIN data \ keys |-> data[k]]

Op(note, op, arg, repeat) ==
    [note |-> note, op |-> op, arg |-> arg, repeat |-> repeat]

\* a datetime as a record written elsewhere gives it: with a UTC offset
with_offset(t) == [at |-> t.at, tz |-> "utc"]

NoteInit ==
    /\ loop = <<>>
    /\ now = 0
    /\ asm = AutoSaveManager(DefaultDelayMs)
    /\ last = Last("init", AutoSaveManager(DefaultDelayMs), 0, "none", "none")
    /\ hist = NoHist
    /\ win = NoWindow
    /\ disk = <<>>
    /\ obj = Op(Note(1, 0), "create", None, FALSE)
    /\ lst = <<>>

\* Note(): another object, with an identifier of its own
NoteCreate ==
    /\ \E id \in NoteIds \ {obj.note.id} :
          obj' = Op(Note(id, now), "create", None, FALSE)
    /\ UNCHANGED <<schedVars, win, disk, lst, loop>>

\* note.update_content(content)
NoteUpdateContent ==
    /\ \E content \in NoteContents :
          obj' = Op(update_content(obj.note, content, now), "update_content",
                    content, obj.op = "update_content" /\ obj.arg = content)
    /\ UNCHANGED <<schedVars, win, disk, lst, loop>>

\* Note.from_dict of the note's to_dict(), whole or with keys missing
NoteFromDict ==
    /\ \E keys \in MissingKeys :
          obj' = Op(from_dict(without(to_dict(obj.note), keys), None, now),
                    "from_dict", keys, FALSE)
    /\ UNCHANGED <<schedVars, win, disk, lst, loop>>

\* Note.from_dict of the note's record as another program has written it:
\* with timestamps that carry an offset, marked as a favourite or not
NoteFromRecord ==
    /\ \E favourite \in BOOLEAN :
          obj' = Op(from_dict([to_dict(obj.note) EXCEPT
                                  !.created_at = isoformat(with_offset(obj.note.created_at)),
                                  !.modified_at = isoformat(with_offset(obj.note.modified_at)),
                                  !.is_favorite = favourite],
                              None, now),
                    "from_record", None, FALSE)
    /\ UNCHANGED <<schedVars, win, disk, lst, loop>>

\* the wall clock datetime.now() reads changes: time passes, or the clock is
\* set back (a correction of the system time, the end of daylight saving
\* time in the naive local time the code uses)
NoteTick ==
    /\ \E t \in 0..MaxNoteClock : t # now /\ now' = t
    /\ UNCHANGED <<asm, last, hist, win, disk, obj, lst, loop>>

NoteNext ==
    \/ NoteCreate
    \/ NoteUpdateContent
    \/ NoteFromDict
    \/ NoteFromRecord
    \/ NoteTick

NoteSpec == NoteInit /\ [][NoteNext]_vars

-----------------------------------------------------------------------------
(* A NotesList on its own: handed a list of notes, then notes are added,    *)
(* updated, removed and selected and the user searches, in any order.      *)
(* lst is the list (heap, notes, items, current_row, search and the two     *)
(* labels); lst.op and lst.arg are the last call and its argument, and      *)
(* lst.hit tells whether the call found what it looked for: update_note,    *)
(* remove_note and select_note a note of the identifier, a search a hidden  *)
(* row.                                                                     *)

ListIds == {1, 2, 3}

\* the contents of the notes: a paragraph, and a heading with a paragraph
\* of two words
ListContents ==
    {<<"<p>", "a", "</p>">>,
     <<"<h1>", "A", "</h1>", "<p>", "b", " ", "c", "</p>">>}

\* the Note objects a caller hands to the list: a note with either content,
\* and the note with the heading as it is when it has been saved again later
ListNotes ==
    [id \in ListIds |->
        {update_content(Note(id, 0), c, 0) : c \in ListContents}
        \cup {update_content(Note(id, 0), c, 1) :
                  c \in {d \in ListContents : Len(d) > 3}}]

\* the texts the user types into the search box
ListQueries ==
    {<<>>, <<"A">>, <<"b">>, <<"c", " ">>}

\* the lists of notes of distinct identifiers
ListsOfNotes ==
    UNION {{q \in [1..n -> UNION {ListNotes[id] : id \in ListIds}] :
                \A i, j \in 1..n : i # j => q[i].id # q[j].id} :
           n \in 0..Cardinality(ListIds)}

\* the lists load_all_notes returns from a directory whose records were
\* written with a UTC offset in modified_at
ListsWithOffset ==
    {[i \in DOMAIN q |-> [q[i] EXCEPT !.modified_at = with_offset(@)]] :
         q \in {r \in ListsOfNotes : r # <<>>}}

\* a fresh NotesList: no notes, an empty search box, the list widget shown
NotesList ==
    [heap |-> NoFiles, notes |-> <<>>, items |-> <<>>, current_row |-> None,
     search |-> <<>>, title_label |-> <<"Notes">>, empty_state |-> "list",
     raised |-> "none"]

\* the references of the Note objects of a list load_all_notes returns: the
\* first note of an identifier is named by the identifier, and a note loaded
\* from a copy of a record file by a number that is no identifier
refs_of(notes) ==
    [i \in DOMAIN notes |->
        IF \A j \in 1..(i - 1) : notes[j].id # notes[i].id
        THEN notes[i].id ELSE 0 - i]

\* the Note objects of such a list, by reference
heap_of(notes) ==
    [r \in {refs_of(notes)[i] : i \in DOMAIN notes} |->
        notes[CHOOSE i \in DOMAIN notes : refs_of(notes)[i] = r]]

\* the reference of a Note object a caller has made: its identifier, or
\* another number while an object of the list is named by the identifier
new_ref(w, id) ==
    LET free == {0 - k : k \in 1..(Cardinality(DOMAIN w.heap) + 1)} \ DOMAIN w.heap
    IN  IF id \notin DOMAIN w.heap THEN id
        ELSE CHOOSE n \in free : \A m \in free : n >= m

\* the list after a call, with the record of the call
Called(w, op, arg, hit) ==
    [heap |-> w.heap, notes |-> w.notes, items |-> w.items,
     current_row |-> w.current_row, search |-> w.search,
     title_label |-> w.title_label, empty_state |-> w.empty_state,
     raised |-> w.raised, op |-> op, arg |-> arg, hit |-> hit]

has_note(w, note_id) == notes_with(w, note_id) # {}

ListInit ==
    /\ loop = <<>>
    /\ now = 0
    /\ asm = AutoSaveManager(DefaultDelayMs)
    /\ last = Last("init", AutoSaveManager(DefaultDelayMs), 0, "none", "none")
    /\ hist = NoHist
    /\ win = NoWindow
    /\ disk = <<>>
    /\ obj = <<>>
    /\ \E notes \in ListsOfNotes \cup ListsWithOffset :
          lst = Called(set_notes([NotesList EXCEPT !.heap = heap_of(notes)],
                                 refs_of(notes)),
                       "set_notes", None, FALSE)

\* set_notes has returned: MainWindow.__init__ goes on and the window with
\* its list comes to exist
ListBuilt == lst.raised = "none"

\* notes_list.add_note(note) with a new note
ListAdd ==
    /\ ListBuilt
    /\ \E id \in ListIds : \E note \in ListNotes[id] :
          /\ ~has_note(lst, id)
          /\ lst' = Called(add_note([lst EXCEPT !.heap = put(@, new_ref(lst, id), note)],
                                    new_ref(lst, id)),
                           "add_note", id, FALSE)
    /\ UNCHANGED <<schedVars, win, disk, obj, loop>>

\* notes_list.update_note(note), with a Note object the list or one of its
\* rows refers to, as the caller has changed it (MainWindow passes its
\* current note after update_content), or with an object of an identifier
\* the list does not hold
ListUpdate ==
    /\ ListBuilt
    /\ \E id \in ListIds : \E note \in ListNotes[id] :
          \E ref \in IF \E r \in DOMAIN lst.heap : lst.heap[r].id = id
                     THEN {r \in DOMAIN lst.heap : lst.heap[r].id = id}
                     ELSE {new_ref(lst, id)} :
              lst' = Called(collect(update_note([lst EXCEPT !.heap = put(@, ref, note)],
                                                ref), {}),
                            "update_note", id, has_note(lst, id))
    /\ UNCHANGED <<schedVars, win, disk, obj, loop>>

\* notes_list.remove_note(note_id); the Note object lives on while a row
\* refers to it
ListRemove ==
    /\ ListBuilt
    /\ \E id \in ListIds, stray \in BOOLEAN :
          lst' = Called(collect(remove_note(lst, id, stray), {}),
                        "remove_note", id, has_note(lst, id))
    /\ UNCHANGED <<schedVars, win, disk, obj, loop>>

\* notes_list.select_note(note_id)
ListSelect ==
    /\ ListBuilt
    /\ \E id \in ListIds :
          lst' = Called(select_note(lst, id), "select_note", id,
                        items_with(lst, id) # {})
    /\ UNCHANGED <<schedVars, win, disk, obj, loop>>

\* the user changes the text of the search box: textChanged ->
\* _on_search_changed
ListSearch ==
    /\ ListBuilt
    /\ \E text \in ListQueries :
          /\ text # lst.search
          /\ lst' = Called(on_search_changed(lst, text), "search", text,
                           \E i \in DOMAIN lst.items : lst.items[i].hidden)
    /\ UNCHANGED <<schedVars, win, disk, obj, loop>>

ListNext ==
    \/ ListAdd
    \/ ListUpdate
    \/ ListRemove
    \/ ListSelect
    \/ ListSearch

ListSpec == ListInit /\ [][ListNext]_vars

\* the lists load_all_notes returns, newest first, from a directory in which
\* a record file has been copied: from_dict takes the identifier from the
\* record, so the copy loads as a second note of the same identifier
ListsWithCopy ==
    UNION {{q \in [1..n -> UNION {ListNotes[id] : id \in ListIds}] :
                /\ \A i, j \in 1..n : q[i].id = q[j].id => q[i] = q[j]
                /\ \E i, j \in 1..n : i # j /\ q[i].id = q[j].id
                /\ \A i, j \in 1..n :
                       i < j => q[i].modified_at.at >= q[j].modified_at.at} :
           n \in 2..Cardinality(ListIds)}

\* MainWindow._load_notes with such a directory: set_notes(load_all_notes())
\* and select_note(notes[0].id)
CopyListInit ==
    /\ loop = <<>>
    /\ now = 0
    /\ asm = AutoSaveManager(DefaultDelayMs)
    /\ last = Last("init", AutoSaveManager(DefaultDelayMs), 0, "none", "none")
    /\ hist = NoHist
    /\ win = NoWindow
    /\ disk = <<>>
    /\ obj = <<>>
    /\ \E notes \in ListsWithCopy :
          lst = Called(select_note(set_notes([NotesList EXCEPT !.heap = heap_of(notes)],
                                             refs_of(notes)),
                                   notes[1].id),
                       "select_note", notes[1].id, TRUE)

\* the calls MainWindow makes on the list: add_note, update_note, remove_note
CopyListNext ==
    \/ ListAdd
    \/ ListUpdate
    \/ ListRemove

CopyListSpec == CopyListInit /\ [][CopyListNext]_vars


-----------------------------------------------------------------------------
(* The event loop and the handlers of MainWindow, statement by statement.    *)
(* loop is                                                                   *)
(*   stack         the calls in progress, innermost last: the function, the  *)
(*                 statement it is at, and its argument                      *)
(*   current_note  identifier of self.current_note, or None                  *)
(*   timer         whether the QTimer of the scheduler is counting down      *)
(*   timer_obj     that QTimer: alive, given up by cleanup() (deleteLater),  *)
(*                 or deleted                                                *)
(*   notes         the identifiers of the notes that exist                   *)
(*   saving        the notes whose _save_current_note is in progress         *)
(*   window        open, closing (fading out), closed or aborted             *)
(* Qt runs everything on one thread and delivers an event when control is in *)
(* an event loop: app.exec() when no handler runs, or the loop of a modal    *)
(* message box that a handler has opened.  A modal box takes the user's      *)
(* input, so only the timer reaches the window while one is open.            *)

LoopIds == {1, 2}

Frame(fn, pc, arg) == [fn |-> fn, pc |-> pc, arg |-> arg]

\* the statements at which a handler waits in the event loop of a message box
Dialogs == {"question", "warning"}

top(l) == l.stack[Len(l.stack)]
idle(l) == l.stack = <<>>
in_event_loop(l) == IF idle(l) THEN TRUE ELSE top(l).pc \in Dialogs

\* a call, a return, the next statement, and a call after which the caller
\* goes on at pc
push(l, frame) == [l EXCEPT !.stack = Append(@, frame)]
pop(l) == [l EXCEPT !.stack = SubSeq(@, 1, Len(@) - 1)]
goto(l, pc) == [l EXCEPT !.stack[Len(l.stack)].pc = pc]
call(l, pc, frame) == push(goto(l, pc), frame)

\* the application has ended: the window is closed, or an exception has left
\* a slot.  A handler that waits in a message box returns with the box
\* unanswered and does no more
over(l, how) ==
    [l EXCEPT !.stack = <<>>, !.saving = <<>>, !.timer = FALSE, !.window = how]

\* self._timer.stop() and self._timer.start() in trigger(), on the timer as it
\* is: a timer that has been deleted raises RuntimeError
triggered(l) ==
    IF l.timer_obj = "deleted" THEN over(l, "aborted") ELSE [l EXCEPT !.timer = TRUE]

\* a _save_current_note that tells the user of a failed save in a message box
after_save_note_warning(outcome) ==
    IF save_note_result(outcome) THEN "return" ELSE "warning"

\* MainWindow._save_current_note after storage.save_note: update_note and
\* set_modified, or logger.error, and then the return
after_save_note(outcome) == "return"

\* the next statement of the innermost call
step(l, outcome, deleted, reply) ==
    LET f == top(l) IN
    CASE f.fn = "_on_save" ->
            IF f.pc = "save_callback"
            THEN call(l, "return", Frame("_save_current_note", "enter", None))
            ELSE pop(l)
      [] f.fn = "save_now" ->
            IF f.pc = "stop"
            THEN IF l.timer_obj = "deleted" THEN over(l, "aborted")
                 ELSE call([l EXCEPT !.timer = FALSE], "return",
                           Frame("_on_save", "save_callback", None))
            ELSE pop(l)
      [] f.fn = "_save_current_note" ->
            ( CASE f.pc = "enter" ->
                     IF l.current_note = None THEN pop(l)
                     ELSE goto([l EXCEPT !.saving = Append(@, l.current_note)],
                               "save_note")
                [] f.pc = "save_note" -> goto(l, after_save_note(outcome))
                [] f.pc = "warning" -> goto(l, "return")
                [] f.pc = "return" ->
                     pop([l EXCEPT !.saving = SubSeq(@, 1, Len(@) - 1)]) )
      [] f.fn = "_on_note_selected" ->
            IF f.pc = "save_now"
            THEN IF l.current_note # None
                 THEN call(l, "switch", Frame("save_now", "stop", None))
                 ELSE goto(l, "switch")
            ELSE pop([l EXCEPT !.current_note = f.arg, !.timer = FALSE,
                               !.timer_obj = "alive"])
      [] f.fn = "_create_new_note" ->
            ( CASE f.pc = "save_note" ->
                     IF save_note_result(outcome)
                     THEN call([l EXCEPT !.notes = @ \cup {f.arg}], "return",
                               Frame("_on_note_selected", "save_now", f.arg))
                     ELSE goto(l, "warning")
                [] f.pc = "warning" -> goto(l, "return")
                [] f.pc = "return" -> pop(l) )
      [] f.fn = "_delete_note" ->
            ( CASE f.pc = "question" ->
                     IF reply = "Yes" THEN goto(l, "delete_note") ELSE pop(l)
                [] f.pc = "delete_note" ->
                     IF deleted
                     THEN IF l.current_note = f.arg
                          THEN pop(triggered([l EXCEPT !.notes = @ \ {f.arg},
                                                       !.current_note = None]))
                          ELSE pop([l EXCEPT !.notes = @ \ {f.arg}])
                     ELSE goto(l, "warning")
                [] f.pc = "warning" -> pop(l) )
      [] f.fn = "closeEvent" ->
            IF f.pc = "is_closing"
            THEN IF l.window = "closing" THEN over(l, "closed")
                 ELSE goto([l EXCEPT !.window = "closing"], "save_now")
            ELSE IF f.pc = "save_now"
            THEN IF l.current_note # None
                 THEN call(l, "cleanup", Frame("save_now", "stop", None))
                 ELSE goto(l, "cleanup")
            ELSE pop([l EXCEPT !.timer = FALSE, !.timer_obj = "deleteLater"])

\* the window after __init__: the first note is selected, its scheduler idle
LoopInit ==
    /\ now = 0
    /\ asm = AutoSaveManager(DefaultDelayMs)
    /\ last = Last("init", AutoSaveManager(DefaultDelayMs), 0, "none", "none")
    /\ hist = NoHist
    /\ win = NoWindow
    /\ disk = <<>>
    /\ obj = <<>>
    /\ lst = <<>>
    /\ loop = [stack |-> <<>>, current_note |-> 1, timer |-> FALSE,
               timer_obj |-> "alive",
               notes |-> {1}, saving |-> <<>>, window |-> "open"]

\* the window is there: open, or closing, which is the 200 ms of the
\* fade-out; its handlers do not look at _is_closing
Exists == loop.window \in {"open", "closing"}

\* the user's events reach the window when no handler runs
Ready == idle(loop) /\ Exists

\* QTimer.timeout -> AutoSaveManager._on_save; the timer is single-shot
LoopTimeout ==
    /\ Exists
    /\ loop.timer
    /\ loop.timer_obj = "alive"
    /\ in_event_loop(loop)
    /\ loop' = push([loop EXCEPT !.timer = FALSE],
                    Frame("_on_save", "save_callback", None))
    /\ UNCHANGED <<schedVars, win, disk, obj, lst>>

\* content_changed -> AutoSaveManager.trigger
LoopContentChanged ==
    /\ Ready
    /\ loop' = triggered(loop)
    /\ UNCHANGED <<schedVars, win, disk, obj, lst>>

\* note_selected -> _on_note_selected
LoopNoteSelected ==
    /\ Ready
    /\ \E id \in loop.notes :
          loop' = push(loop, Frame("_on_note_selected", "save_now", id))
    /\ UNCHANGED <<schedVars, win, disk, obj, lst>>

\* Ctrl+S -> _save_current_note
LoopCtrlS ==
    /\ Ready
    /\ loop' = push(loop, Frame("_save_current_note", "enter", None))
    /\ UNCHANGED <<schedVars, win, disk, obj, lst>>

\* Ctrl+N -> _create_new_note, which saves the new note first
LoopCreateNewNote ==
    /\ Ready
    /\ \E id \in LoopIds \ loop.notes :
          loop' = push(loop, Frame("_create_new_note", "save_note", id))
    /\ UNCHANGED <<schedVars, win, disk, obj, lst>>

\* delete_note_requested -> _delete_note, which opens QMessageBox.question
LoopDeleteNote ==
    /\ Ready
    /\ \E id \in loop.notes :
          loop' = push(loop, Frame("_delete_note", "question", id))
    /\ UNCHANGED <<schedVars, win, disk, obj, lst>>

\* the close button -> closeEvent
LoopClose ==
    /\ Ready
    /\ loop' = push(loop, Frame("closeEvent", "is_closing", None))
    /\ UNCHANGED <<schedVars, win, disk, obj, lst>>

\* the fade-out ends, in whichever event loop control is: actually_close
\* calls close(), and closeEvent runs with _is_closing set
LoopFinishClose ==
    /\ loop.window = "closing"
    /\ in_event_loop(loop)
    /\ loop' = push(loop, Frame("closeEvent", "is_closing", None))
    /\ UNCHANGED <<schedVars, win, disk, obj, lst>>

\* the event loop carries out the deletion cleanup() has posted
LoopDeferredDelete ==
    /\ Exists
    /\ in_event_loop(loop)
    /\ loop.timer_obj = "deleteLater"
    /\ loop' = [loop EXCEPT !.timer = FALSE, !.timer_obj = "deleted"]
    /\ UNCHANGED <<schedVars, win, disk, obj, lst>>

\* the innermost call goes on by one statement; at a message box, the user
\* answers it
LoopRun ==
    /\ ~idle(loop)
    /\ \E outcome \in SaveOutcomes, deleted \in BOOLEAN, reply \in {"Yes", "No"} :
          loop' = step(loop, outcome, deleted, reply)
    /\ UNCHANGED <<schedVars, win, disk, obj, lst>>

LoopNext ==
    \/ LoopTimeout
    \/ LoopContentChanged
    \/ LoopNoteSelected
    \/ LoopCtrlS
    \/ LoopCreateNewNote
    \/ LoopDeleteNote
    \/ LoopClose
    \/ LoopFinishClose
    \/ LoopDeferredDelete
    \/ LoopRun

LoopSpec == LoopInit /\ [][LoopNext]_vars

-----------------------------------------------------------------------------
(* Properties of the scheduler *)

\* trigger() reached a live timer of an enabled scheduler
TriggerTookEffect ==
    last.op = "trigger" /\ asm.is_enabled /\ asm.timer.obj = "alive"

\* C1: debounce.  While a burst of trigger() calls is pending no save has
\* fired for it, and its deadline is the time of the last trigger() plus the
\* delay at that call; the timer-fired save of a burst happens exactly at that
\* time, not before any of the earlier deadlines, and once.
C1_Debounce ==
    /\ Pending =>
          /\ hist.fires = 0
          /\ asm.timer.deadline = hist.time + hist.delay
          /\ now <= hist.time + hist.delay
    /\ last.op = "timeout" =>
          /\ now = hist.time + hist.delay
          /\ hist.fires = 1
          /\ ~Pending
    /\ hist.fires <= 1

\* C2: save_now() on a scheduler whose timer exists (idle, pending or
\* disabled) invokes the callback once within the call and leaves no
\* countdown running; the timer never fires for a burst that save_now() has
\* already saved.
C2_SaveNow ==
    /\ (last.op = "save_now" /\ last.escaped # "RuntimeError") =>
          /\ last.invoked = 1
          /\ ~Pending
    /\ last.op = "timeout" => hist.settled # "save_now"

\* save_now() was called while a burst of two or more trigger() calls was pending
C2_Witness ==
    /\ last.op = "save_now"
    /\ last.was_pending
    /\ last.invoked = 1
    /\ hist.len >= 2
    /\ hist.fires = 0

\* C3: disable() stops a pending countdown without invoking the callback and
\* that save never fires, also not after enable(); a disabled scheduler has
\* no countdown, trigger() leaves it as it is, and on an enabled scheduler
\* trigger() starts the countdown.
C3_DisableState ==
    /\ last.op = "disable" => (last.invoked = 0 /\ ~Pending /\ ~asm.is_enabled)
    /\ ~asm.is_enabled => ~Pending
    /\ last.op = "timeout" => hist.settled # "disable"
    /\ (last.op = "trigger" /\ ~asm.is_enabled) => last.escaped = "none"
    /\ TriggerTookEffect => Pending

C3_DisableStep ==
    /\ (last'.op = "trigger" /\ ~asm.is_enabled) => asm' = asm
    /\ last'.op = "enable" => (asm'.is_enabled /\ asm'.timer = asm.timer)

C3_Disable == []C3_DisableState /\ [][C3_DisableStep]_vars

\* disable() was called while a countdown was running and dropped it
C3_Witness ==
    /\ last.op = "disable"
    /\ last.was_pending
    /\ ~Pending
    /\ hist.fires = 0

\* C4: set_delay() leaves the timer as it is, so a pending save still fires
\* on the countdown fixed by the last trigger() and the delay in force at
\* that call, not before the timer's tolerance of its end; a trigger() sets
\* the deadline to the current time plus the delay in force at that call.
C4_SetDelayStep ==
    /\ last'.op = "set_delay" => (asm'.timer = asm.timer /\ now' = now)
    /\ (last'.op = "trigger" /\ asm.is_enabled /\ ~timer_gone(asm.timer)) =>
          (asm'.timer.active /\ asm'.timer.deadline = now + asm.delay_ms)
    /\ last'.op = "timeout" =>
          /\ asm.timer.deadline = hist.time + hist.delay
          /\ now' >= asm.timer.deadline - coarse_tolerance(hist.delay)

C4_SetDelay == [][C4_SetDelayStep]_vars

\* a save fired on the countdown of the old delay after set_delay() had
\* changed the delay while it was pending
C4_Witness ==
    /\ last.op = "timeout"
    /\ hist.delay = DefaultDelayMs
    /\ asm.delay_ms # hist.delay
    /\ now >= hist.time + DefaultDelayMs - coarse_tolerance(DefaultDelayMs)

\* C5: when the callback raises an Exception nothing escapes from the timer
\* path or from save_now(), and the scheduler is left exactly as after a
\* successful save: idle, with is_enabled and delay_ms as before; after a
\* failure trigger() starts the countdown as usual.
C5_FailureStep ==
    (last'.cb \in CallbackFailures /\ last'.op \in {"timeout", "save_now"}) =>
        /\ last'.escaped = "none"
        /\ asm' = [asm EXCEPT !.timer = timer_stop(@)]

C5_AfterFailure ==
    (hist.failed /\ TriggerTookEffect) =>
        (Pending /\ asm.timer.deadline = now + asm.delay_ms)

C5_CallbackFailure == []C5_AfterFailure /\ [][C5_FailureStep]_vars

\* C6: after a trigger() that reached the live timer of an enabled scheduler,
\* eventually the callback is invoked, or a further trigger(), a disable() or
\* a cleanup() is issued.
C6_Liveness ==
    \A e \in {0, 1} :
        (TriggerTookEffect /\ hist.epoch = e) ~>
            \/ last.invoked = 1
            \/ last.op \in {"disable", "cleanup"}
            \/ hist.epoch # e

\* the countdown of a trigger() ran out and the save fired
C6_Witness ==
    /\ last.op = "timeout"
    /\ last.was_pending
    /\ hist.settled = "no"
    /\ hist.len = 1

\* C9: cleanup() stops a pending countdown and does not invoke the callback;
\* once cleanup() has run the timer never fires.
C9_Cleanup ==
    /\ last.op = "cleanup" => (last.invoked = 0 /\ ~Pending)
    /\ last.op = "timeout" => (hist.settled # "cleanup" /\ asm.timer.obj = "alive")
    /\ asm.timer.obj = "deleted" => ~Pending

\* cleanup() was called while a countdown was running and dropped it
C9_Witness ==
    /\ last.op = "cleanup"
    /\ last.was_pending
    /\ ~Pending
    /\ hist.fires = 0

-----------------------------------------------------------------------------
(* Properties of the application *)

\* nothing is scheduled: no countdown runs
Quiescent == ~win.asm.timer.active

\* C7: durability of edits.  Once edits have stopped and the open window
\* with its (never disabled) scheduler has come to rest, with every storage
\* write having succeeded, nothing the user has typed is left that was never
\* handed to the store.
C7_Durability ==
    ( /\ win.window = "open"
      /\ win.has_manager
      /\ win.asm.is_enabled
      /\ win.io_failures = 0
      /\ Quiescent ) => ~win.owed

\* C8: a step writes a complete record only for the current note, with the
\* content the editor holds when the handler runs (not the text it held when
\* the countdown was started), or for the note it has just created.
C8_SaveStep ==
    \A id \in DOMAIN win'.storage :
        ( /\ win'.storage[id].parsable
          /\ (id \in DOMAIN win.storage => win'.storage[id] # win.storage[id]) ) =>
            \/ /\ win.current_note # None
               /\ id = win.heap[win.current_note].id
               /\ win'.storage[id].data.content = to_html(win.text)
            \/ /\ id = win.next_id
               /\ id \notin DOMAIN win.storage
               /\ win'.storage[id].data.content = <<>>

C8_FireTimeContent == [][C8_SaveStep]_vars

\* the countdown was started at one text, the user typed on, and the save
\* wrote the later text
C8_Witness ==
    /\ win.window = "open"
    /\ win.current_note # None
    /\ win.has_manager
    /\ ~win.asm.timer.active
    /\ ~win.owed
    /\ win.burst_text # win.text
    /\ win.heap[win.current_note].id \in DOMAIN win.storage
    /\ win.storage[win.heap[win.current_note].id].parsable
    /\ win.storage[win.heap[win.current_note].id].data.content = to_html(win.text)
    /\ win.heap[win.current_note].content = to_html(win.text)

\* C10: a save never damages the existing record.  A file that holds a
\* complete record holds a complete record after every step, unless the step
\* has deleted it.
C10_FileStaysLoadable ==
    \A id \in DOMAIN win.storage :
        win.storage[id].parsable =>
            (id \notin DOMAIN win'.storage \/ win'.storage[id].parsable)

C10_FailedSaveKeepsRecord == [][C10_FileStaysLoadable]_vars

-----------------------------------------------------------------------------
(* Properties of the store *)

\* the record files in a directory
RecordFiles(files) == {i \in StoreIds : i \in DOMAIN files}

\* the files other than <id>.json are the same in both directories
SameButFor(before, after, id) ==
    /\ DOMAIN after \ {id} = DOMAIN before \ {id}
    /\ \A i \in DOMAIN after \ {id} : after[i] = before[i]

\* C11: a save that succeeds is followed by a load of the same identifier
\* that, when its own read does not fail, returns the saved note, equal in
\* every field; the save replaces the record that was there, adds one file if
\* there was none, and touches no other file.
C11_SaveThenLoad ==
    (disk.op = "save" /\ disk.result = TRUE) =>
        /\ load_note(disk.files, disk.arg.id, "ok") = <<disk.arg>>
        /\ Cardinality(RecordFiles(disk.files)) =
               Cardinality(RecordFiles(disk.before))
                   + (IF disk.arg.id \in DOMAIN disk.before THEN 0 ELSE 1)
        /\ SameButFor(disk.before, disk.files, disk.arg.id)

\* a second save of an identifier has replaced a different complete record
C11_Witness ==
    /\ disk.op = "save"
    /\ disk.result = TRUE
    /\ disk.arg.id \in DOMAIN disk.before
    /\ disk.before[disk.arg.id].parsable
    /\ load_note(disk.before, disk.arg.id, "ok") # <<disk.arg>>
    /\ load_note(disk.files, disk.arg.id, "ok") = <<disk.arg>>

\* C12: save_note raises nothing; every failure of its I/O is reported as
\* False, and True means the file holds the serialized note.
C12_SaveReportsFailure ==
    disk.op = "save" =>
        /\ disk.raised = "none"
        /\ disk.outcome # "ok" => disk.result = FALSE
        /\ disk.result = TRUE =>
               /\ disk.arg.id \in DOMAIN disk.files
               /\ disk.files[disk.arg.id] = File(to_dict(disk.arg))

\* a save failed after the file was opened, and returned False
C12_Witness ==
    /\ disk.op = "save"
    /\ disk.outcome = "write_error"
    /\ disk.result = FALSE
    /\ disk.raised = "none"

\* C13: load_note tells a missing file from a corrupt one: what it returns
\* for an identifier without a file differs from what it returns for an
\* identifier whose file does not deserialize.
C13_DistinctOutcomes ==
    \A i, j \in StoreIds :
        ( /\ i \notin DOMAIN disk.files
          /\ j \in DOMAIN disk.files
          /\ ~disk.files[j].parsable ) =>
            \A outcome \in ReadOutcomes :
                load_note(disk.files, i, outcome) # load_note(disk.files, j, outcome)

\* the files a load_all_notes could read and deserialize
Deserialized == {j \in DOMAIN disk.files \ disk.unread : disk.files[j].parsable}

\* C14: load_all_notes, when listing the directory succeeds, returns exactly
\* the notes of the files that deserialize, newest first.
C14_LoadAll ==
    (disk.op = "load_all" /\ disk.outcome = "ok") =>
        /\ {disk.result[k] : k \in DOMAIN disk.result} =
               {from_dict(disk.files[i].data, None, 0) : i \in Deserialized}
        /\ Len(disk.result) = Cardinality(Deserialized)
        /\ \A k, m \in DOMAIN disk.result :
               k < m => disk.result[k].modified_at.at >= disk.result[m].modified_at.at

\* C15: delete_note of an identifier that has a file removes that file only
\* and returns True, after which load_note finds nothing and the count is one
\* lower; of an identifier without a file it returns False and changes
\* nothing; it raises nothing.  (An unlink that fails returns False and
\* changes nothing.)
C15_Delete ==
    disk.op = "delete" =>
        /\ disk.raised = "none"
        /\ (disk.arg \in DOMAIN disk.before /\ disk.outcome = "ok") =>
               /\ disk.result = TRUE
               /\ disk.arg \notin DOMAIN disk.files
               /\ \A o \in ReadOutcomes : load_note(disk.files, disk.arg, o) = <<>>
               /\ get_note_count(disk.files, "ok") =
                      get_note_count(disk.before, "ok") - 1
               /\ SameButFor(disk.before, disk.files, disk.arg)
        /\ (disk.arg \notin DOMAIN disk.before \/ disk.outcome # "ok") =>
               /\ disk.result = FALSE
               /\ disk.files = disk.before

\* a file was deleted from a directory that held others
C15_Witness ==
    /\ disk.op = "delete"
    /\ disk.result = TRUE
    /\ disk.arg \in DOMAIN disk.before
    /\ disk.arg \notin DOMAIN disk.files
    /\ disk.files # NoFiles

\* C16: when the directory can be listed, get_note_count is the number of
\* record files, those that do not deserialize included; get_note_count,
\* load_note and load_all_notes leave the directory as it is.
C16_Count ==
    /\ (disk.op = "count" /\ disk.outcome = "ok") =>
           disk.result = Cardinality(RecordFiles(disk.files))
    /\ disk.op \in {"count", "load", "load_all"} => disk.files = disk.before

\* the files were counted in a directory that holds a corrupt file
C16_Witness ==
    /\ disk.op = "count"
    /\ disk.outcome = "ok"
    /\ disk.result >= 2
    /\ \E i \in DOMAIN disk.files : ~disk.files[i].parsable

\* C30: a save the user asks for with Ctrl+S that fails shows the user a
\* message, and a save the timer fires that fails shows none.
C30_NoticeStep ==
    \A outcome \in SaveOutcomes :
        (Running /\ win.current_note # None /\ ~save_note_result(outcome)) =>
            /\ win' = released(save_current_note(dismissed(win), outcome, now))
                   => win'.notice # "none"
            /\ (/\ win.has_manager
                /\ win.asm.timer.obj = "alive"
                /\ win.asm.timer.active
                /\ win' = released(save_current_note(
                              [dismissed(win) EXCEPT !.asm = timer_fired(@)],
                              outcome, now)))
                   => win'.notice = "none"

C30_ExplicitSaveFailureShown == [][C30_NoticeStep]_vars

-----------------------------------------------------------------------------
(* Properties of the notes list *)

\* the identifiers of the notes NotesList holds
IndexIds == {win.heap[win.notes[i]].id : i \in DOMAIN win.notes}

\* the identifiers that have a record file: those of the records in the
\* notes directory
RecordIds ==
    {win.storage[k].data.id : k \in {f \in DOMAIN win.storage : win.storage[f].parsable}}

\* C17: while the window exists and no storage operation has failed, the set
\* of the identifiers of the notes the list holds is the set of the identifiers that have a record
\* file in the notes directory.
C17_IndexMatchesStore ==
    (Running /\ win.io_failures = 0) => IndexIds = RecordIds

\* the identifiers of the rows of the list widget, top to bottom
RowIds(w) == [i \in DOMAIN w.items |-> w.items[i].note]

\* the list as the user and the callers see it, without the record of the call
ListOf(w) ==
    [heap |-> w.heap, notes |-> w.notes, items |-> w.items,
     current_row |-> w.current_row, search |-> w.search,
     title_label |-> w.title_label, empty_state |-> w.empty_state,
     raised |-> w.raised]

\* C24: add_note(note) puts the note at position 0 of the list; the notes
\* that were in the list keep their order, each one position further down,
\* and the list is one longer.  The rows of the widget follow.
C24_AddStep ==
    lst'.op = "add_note" =>
        /\ Len(lst'.notes) = Len(lst.notes) + 1
        /\ lst'.notes[1] = lst'.arg
        /\ \A i \in DOMAIN lst.notes : lst'.notes[i + 1] = lst.notes[i]
        /\ RowIds(lst') = <<lst'.arg>> \o RowIds(lst)

C24_AddAtFront == [][C24_AddStep]_vars

\* a note was added to a list of two
C24_Witness ==
    /\ lst.op = "add_note"
    /\ Len(lst.notes) = 3
    /\ lst.notes[1] = lst.arg
    /\ lst.items[1].note = lst.arg

\* C25: update_note(note) leaves the sequence of identifiers as it is,
\* whatever modified_at the note has: the row of the note shows the new
\* title at its old position; with an identifier that is not in the list
\* nothing changes.
C25_UpdateStep ==
    lst'.op = "update_note" =>
        /\ lst'.notes = lst.notes
        /\ RowIds(lst') = RowIds(lst)
        /\ lst'.hit =>
               \A i \in DOMAIN lst'.items :
                   lst'.items[i].note = lst'.arg
                       => lst'.items[i].title = lst'.heap[lst'.arg].title
        /\ ~lst'.hit => ListOf(lst') = ListOf(lst)

C25_UpdateInPlace == [][C25_UpdateStep]_vars

\* the second note of the list was updated and is newer than the first
C25_Witness ==
    /\ lst.op = "update_note"
    /\ lst.hit
    /\ Len(lst.notes) >= 2
    /\ lst.notes[2] = lst.arg
    /\ lst.heap[lst.arg].modified_at.at > lst.heap[lst.notes[1]].modified_at.at

\* C26: remove_note(id) takes the note of that identifier out of the list
\* and keeps the other notes in their order; with an identifier that is not
\* in the list the list stays as it is; afterwards no note of the list has
\* the identifier.  The rows of the widget follow.
C26_RemoveStep ==
    lst'.op = "remove_note" =>
        /\ lst'.notes = SelectSeq(lst.notes, LAMBDA id : id # lst'.arg)
        /\ RowIds(lst') = SelectSeq(RowIds(lst), LAMBDA id : id # lst'.arg)
        /\ ~has_note(lst', lst'.arg)
        /\ lst'.hit => Len(lst'.notes) = Len(lst.notes) - 1
        /\ ~lst'.hit => ListOf(lst') = ListOf(lst)

C26_Remove == [][C26_RemoveStep]_vars

\* a note was removed from a list of three
C26_Witness ==
    /\ lst.op = "remove_note"
    /\ lst.hit
    /\ Len(lst.notes) = 2
    /\ Len(lst.items) = 2

\* a note matches a query when the query is empty or is, whatever the case
\* of its letters, a part of the note's title or of the plain text of the
\* note's content
Matches(note, query) ==
    \/ query = <<>>
    \/ \E i \in 0..(Len(note.title) - Len(query)) :
           lower(SubSeq(note.title, i + 1, i + Len(query))) = lower(query)
    \/ LET plain == to_plain_text(note.content) IN
       \E i \in 0..(Len(plain) - Len(query)) :
           lower(SubSeq(plain, i + 1, i + Len(query))) = lower(query)

\* the notes the user sees in the list
Shown(w) ==
    IF w.empty_state = "list" THEN {w.items[i].note : i \in visible(w)} ELSE {}

\* C27: after a search the list shows exactly the notes that match the text
\* of the search box: every note for an empty text, and a note that matches
\* in its content only as well.
C27_SearchShowsMatches ==
    lst.op = "search" =>
        Shown(lst) = {id \in DOMAIN lst.heap : Matches(lst.heap[id], lst.arg)}

\* C28: a search changes neither the notes of the list, nor their order,
\* nor their contents, nor the current row, and a search for the empty text
\* shows every note again.
C28_SearchStep ==
    lst'.op = "search" =>
        /\ lst'.notes = lst.notes
        /\ lst'.heap = lst.heap
        /\ RowIds(lst') = RowIds(lst)
        /\ lst'.current_row = lst.current_row
        /\ lst'.arg = <<>> => Shown(lst') = {lst.notes[i] : i \in DOMAIN lst.notes}

C28_SearchKeepsList == [][C28_SearchStep]_vars

\* the search box was emptied while rows were hidden and a row was current
C28_Witness ==
    /\ lst.op = "search"
    /\ lst.arg = <<>>
    /\ lst.hit
    /\ lst.current_row # None
    /\ Len(lst.notes) = 3
    /\ visible(lst) = DOMAIN lst.items

\* C29: select_note(id) with the identifier of a row makes
\* get_selected_note() return that note; with another identifier it leaves
\* the list and its current row as they are; and the current row is no row
\* or one row of the list.
C29_SelectStep ==
    /\ lst'.op = "select_note" =>
           /\ lst'.hit => /\ lst'.current_row # None
                          /\ get_selected_note(lst') = lst'.heap[lst'.arg]
                          /\ get_selected_note(lst').id = lst'.arg
           /\ ~lst'.hit => ListOf(lst') = ListOf(lst)
    /\ lst'.current_row # None =>
           /\ lst'.current_row \in DOMAIN lst'.items
           /\ Cardinality({i \in DOMAIN lst'.items :
                               lst'.items[i].note = current_item_note(lst')}) = 1

C29_Select == [][C29_SelectStep]_vars

\* an identifier that is not in the list was selected while a row was current
C29_Witness ==
    /\ lst.op = "select_note"
    /\ ~lst.hit
    /\ lst.current_row # None
    /\ get_selected_note(lst).id # lst.arg
    /\ get_selected_note(lst) = lst.heap[lst.items[lst.current_row].note]

-----------------------------------------------------------------------------
(* Properties of the Note *)

\* the title the derivation rule gives a content: Untitled when the content
\* is empty or its plain text is white space only; else the first line of
\* the plain text that holds a character, from its first character that is
\* not white space, cut to TitleMax characters and the ellipsis when longer
TitleRule(content) ==
    LET plain == to_plain_text(content)
        marks == {i \in DOMAIN plain : plain[i] \notin Whitespace}
    IN  IF content = <<>> \/ marks = {} THEN Untitled
        ELSE LET first == CHOOSE i \in marks : \A j \in marks : i <= j
                 final == CHOOSE i \in marks : \A j \in marks : i >= j
                 breaks == {i \in first..final : plain[i] = "\n"}
                 stop == IF breaks = {} THEN final + 1
                         ELSE CHOOSE i \in breaks : \A j \in breaks : i <= j
                 line == SubSeq(plain, first, stop - 1)
             IN  IF Len(line) <= TitleMax THEN line
                 ELSE SubSeq(line, 1, TitleMax) \o Ellipsis

\* C18: the title of every note is the derivation rule applied to the
\* note's content, whether the note is fresh, has been given a content or
\* has been read from a dictionary.
C18_TitleFollowsContent == obj.note.title = TitleRule(obj.note.content)

\* C19: update_content(c) sets the content to c and the title to what the
\* derivation rule gives for c.
C19_TitleRule ==
    obj.op = "update_content" =>
        /\ obj.note.content = obj.arg
        /\ obj.note.title = TitleRule(obj.arg)

\* a content whose first line is longer than TitleMax got a title of TitleMax
\* characters and the ellipsis
C19_Witness ==
    /\ obj.op = "update_content"
    /\ Len(obj.note.title) = TitleMax + 1
    /\ obj.note.title[TitleMax + 1] = "..."
    /\ obj.note.title[TitleMax] = "a"
    /\ Len(to_plain_text(obj.arg)) > TitleMax + 1

\* C20: update_content never moves modified_at back, and, called when the
\* clock has moved on since the note was last modified, it changes
\* modified_at exactly when it changes the content.
C20_ModifiedStep ==
    obj'.op = "update_content" =>
        /\ obj'.note.modified_at.at >= obj.note.modified_at.at
        /\ now > obj.note.modified_at.at =>
               ((obj'.note.modified_at # obj.note.modified_at)
                    <=> (obj'.note.content # obj.note.content))

C20_ModifiedIffContent == [][C20_ModifiedStep]_vars

\* C21: writing a note to a dictionary and reading the dictionary back gives
\* a note equal to it in all six fields.
C21_RoundTrip ==
    LET back == from_dict(to_dict(obj.note), None, now) IN
    \A k \in NoteKeys : back[k] = obj.note[k]

\* a note with a content, a derived title and an offset in its timestamps
\* has been read back from its own dictionary, later than it was modified
C21_Witness ==
    /\ obj.op = "from_dict"
    /\ obj.arg = {}
    /\ obj.note.content # <<>>
    /\ obj.note.title # Untitled
    /\ aware(obj.note.modified_at)
    /\ now > obj.note.modified_at.at

\* C22: an update_content(c) that follows an update_content(c) leaves the
\* title and the content as the first call set them.
C22_RepeatStep ==
    (obj'.op = "update_content" /\ obj'.repeat) =>
        /\ obj'.note.title = obj.note.title
        /\ obj'.note.content = obj.note.content

C22_Idempotent == [][C22_RepeatStep]_vars

\* update_content was called twice with a content whose title is cut
C22_Witness ==
    /\ obj.op = "update_content"
    /\ obj.repeat
    /\ Len(obj.note.title) = TitleMax + 1
    /\ obj.note.content = obj.arg

\* the value from_dict gives a field the dictionary lacks; the identifier
\* is a fresh one
IsDefault(note, key, clock) ==
    CASE key = "id" -> note.id \notin NoteIds
      [] key = "title" -> note.title = <<"Untitled">>
      [] key = "content" -> note.content = <<>>
      [] key = "is_favorite" -> note.is_favorite = FALSE
      [] key = "created_at" -> note.created_at = [at |-> clock, tz |-> "naive"]
      [] key = "modified_at" -> note.modified_at = [at |-> clock, tz |-> "naive"]

\* C23: from_dict of a record that lacks any of its fields gives a note in
\* which every missing field has its default and every field of the record
\* has the record's value.
C23_DefaultsStep ==
    (obj'.op = "from_dict" /\ now' = now) =>
        \A k \in NoteKeys :
            IF k \in obj'.arg THEN IsDefault(obj'.note, k, now)
            ELSE obj'.note[k] = obj.note[k]

C23_MissingFields == [][C23_DefaultsStep]_vars

\* a record without title and modified_at was read, later than the note was
\* created: the content is the record's, the title is Untitled
C23_Witness ==
    /\ obj.op = "from_dict"
    /\ obj.arg = {"title", "modified_at"}
    /\ obj.note.content # <<>>
    /\ obj.note.title = Untitled
    /\ obj.note.modified_at.at > obj.note.created_at.at

\* C34: update_content changes the content, the title and modified_at and
\* nothing else: id, created_at and is_favorite stay as they were.
C34_FrameStep ==
    (obj'.op = "update_content" /\ now' = now) =>
        /\ obj'.note.id = obj.note.id
        /\ obj'.note.created_at = obj.note.created_at
        /\ obj'.note.is_favorite = obj.note.is_favorite
        /\ DOMAIN obj'.note = DOMAIN obj.note

C34_UpdateFrame == [][C34_FrameStep]_vars

\* the same content was given twice in a row, later than the note was
\* created: the note still has its time of creation
C34_Witness ==
    /\ obj.op = "update_content"
    /\ obj.repeat
    /\ obj.note.content # <<>>
    /\ obj.note.modified_at.at > obj.note.created_at.at
    /\ obj.note.id \in NoteIds
    /\ obj.note.is_favorite

\* C35: save_note and delete_note of one identifier, whether they succeed or
\* fail, leave what load_note returns for every other identifier as it was,
\* however the read of that load ends.
C35_OthersUntouched ==
    /\ disk.op = "save" =>
           \A b \in StoreIds \ {disk.arg.id}, o \in ReadOutcomes :
               load_note(disk.files, b, o) = load_note(disk.before, b, o)
    /\ disk.op = "delete" =>
           \A b \in StoreIds \ {disk.arg}, o \in ReadOutcomes :
               load_note(disk.files, b, o) = load_note(disk.before, b, o)

\* a save wrote a file, whole or truncated, beside another note's record that
\* loads
C35_Witness ==
    /\ disk.op = "save"
    /\ disk.outcome \in {"ok", "write_error"}
    /\ disk.files # disk.before
    /\ \E b \in StoreIds \ {disk.arg.id} : load_note(disk.before, b, "ok") # <<>>

\* C38: while the search box holds a query that is not empty, the rows that
\* are not hidden are those of the notes that match it, after add_note,
\* update_note and remove_note as well as after a search.
C38_FilterMaintained ==
    LET query == strip(lower(lst.search)) IN
    query # <<>> =>
        {lst.items[i].note : i \in visible(lst)} =
            {lst.notes[i] : i \in {j \in DOMAIN lst.notes :
                                       Matches(lst.heap[lst.notes[j]], query)}}

\* C39: _notes and the rows of the list widget stay aligned: they have the
\* same length and the row at a position is the row of the note at that
\* position, so that update_note leaves a row of the note it updated that
\* shows its title.
C39_Aligned ==
    /\ Len(lst.items) = Len(lst.notes)
    /\ \A i \in DOMAIN lst.notes :
           lst.heap[lst.items[i].note].id = lst.heap[lst.notes[i]].id
    /\ (lst.op = "update_note" /\ lst.hit) =>
           \E i \in DOMAIN lst.items :
               /\ lst.heap[lst.notes[i]].id = lst.arg
               /\ lst.items[i].note = lst.notes[i]
               /\ lst.items[i].title = lst.heap[lst.notes[i]].title

\* C36: a step that changes the content of a note commits editor text that
\* belongs to that note: text loaded from it, or typed while it was the
\* current note.
C36_CommitStep ==
    win.track_text =>
        \A id \in DOMAIN win.heap \cap DOMAIN win'.heap :
            win'.heap[id].content # win.heap[id].content => win.text_for = id

C36_NoCrossNoteContamination == [][C36_CommitStep]_vars

\* C37: when the selection of a note installs a new scheduler, the scheduler
\* it replaces has no countdown running.
C37_ReplaceStep ==
    \A i \in DOMAIN win.items, outcome \in SaveOutcomes :
        LET w == [dismissed(win) EXCEPT !.current_row = i]
            w1 == saved_before_switch(w, outcome, now)
        IN  ( /\ Running
              /\ win' = on_note_selected(w, win.items[i].note, outcome, now)
              /\ ~aborted(w1)
              /\ w1.has_manager ) => ~w1.asm.timer.active

C37_ReplacedSchedulerIdle == [][C37_ReplaceStep]_vars

\* C33: when the countdown fires, the editor content is committed to the
\* current note and handed to the store; the record the notes list holds for
\* that note and its row have the new title, content and modified_at when
\* the save has succeeded, and are as they were before when it has failed.
C33_FireStep ==
    \A outcome \in SaveOutcomes :
        ( /\ Running
          /\ win.current_note # None
          /\ win.has_manager
          /\ win.asm.timer.obj = "alive"
          /\ win.asm.timer.active
          /\ win' = released(save_current_note(
                        [dismissed(win) EXCEPT !.asm = timer_fired(@)],
                        outcome, now)) ) =>
            LET c == win.current_note IN
            /\ save_note_result(outcome) =>
                   /\ win'.heap[c].content = to_html(win.text)
                   /\ win'.storage[win.heap[c].id] = File(to_dict(win'.heap[c]))
                   /\ \A i \in DOMAIN win'.notes :
                          win'.notes[i] = c =>
                              win'.items[i].title = win'.heap[c].title
            /\ ~save_note_result(outcome) =>
                   /\ win'.heap[c] = win.heap[c]
                   /\ win'.items = win.items

C33_IndexFollowsStore == [][C33_FireStep]_vars

\* C32: closing the window with a current note saves before it cleans up:
\* the editor content is committed to the current note and, when the write
\* succeeds, is in its record; the timer is stopped and given up; and from
\* then on no step writes to the notes directory and no countdown runs.
C32_CloseStep ==
    /\ ( /\ win.window = "open"
         /\ win'.window = "closing"
         /\ win.current_note # None
         /\ win.has_manager ) =>
           \A outcome \in SaveOutcomes :
               win' = close_event(dismissed(win), outcome, now) =>
               LET c == win.current_note IN
               /\ win'.heap[c].content = to_html(win.text)
               /\ save_note_result(outcome) =>
                      /\ win'.storage[win.heap[c].id] = File(to_dict(win'.heap[c]))
                      /\ ~win'.owed
               /\ ~win'.asm.timer.active
               /\ win'.asm.timer.obj = "deleteLater"
    /\ win.window \in {"closing", "closed"} =>
           /\ win'.storage = win.storage
           /\ ~win'.asm.timer.active

C32_SaveBeforeCleanup == [][C32_CloseStep]_vars

\* C31: no two saves are in progress at the same time: a _save_current_note
\* that has started returns before another one starts, whatever the timer,
\* the editor and the user do.
C31_OneSaveAtATime ==
    /\ Len(loop.saving) <= 1
    /\ Cardinality({i \in DOMAIN loop.stack :
                        loop.stack[i].fn = "_save_current_note"}) <= 1

\* the timer has fired while the confirmation of a deletion was open, and
\* the save it started is in progress
C31_Witness ==
    /\ loop.saving # <<>>
    /\ \E i, j \in DOMAIN loop.stack :
          /\ i < j
          /\ loop.stack[i].fn = "_delete_note"
          /\ loop.stack[i].pc = "question"
          /\ loop.stack[j].fn = "_save_current_note"
          /\ loop.stack[j].pc = "save_note"

====
